---- MODULE Spec2Model ----
(***************************************************************************)
(* OctopusDB execution substrate: the worker pool (WorkerPool of           *)
(* workerPoolWithState.ts), the AdvancedTaskQueue over the binary heap,    *)
(* and the worker threads' command handler.                                *)
(*                                                                         *)
(* The main thread is a single JavaScript event loop.  Every event         *)
(* (a worker's 'message', 'error' or 'exit', the queue's polling timer)    *)
(* is a macrotask that starts only when the microtask queue is empty;      *)
(* every `await` and every `.then` appends one continuation to the FIFO    *)
(* microtask queue `microtasks`.                                           *)
(***************************************************************************)
EXTENDS Integers, Sequences, FiniteSets, TLC

(* ---------------------------------------------------------------------- *)
(* Bounds                                                                  *)
(* ---------------------------------------------------------------------- *)
MaxWorkers == 2      \* the pool is constructed with maxWorkers in 1..MaxWorkers
MaxCmds    == 3      \* number of runWorker calls made by callers
MaxTime    == 1      \* Date.now() ranges over 0..MaxTime
MaxQueue   == 3      \* heap length bound in the stand-alone queue runs

Keys       == {"k"}
Vals       == {"a", "b"}
Priorities == {0, 1}
Delays     == {0, 1}

(* ---------------------------------------------------------------------- *)
(* Values crossing the worker boundary.  JavaScript values are tagged so   *)
(* that a string, a number, null and undefined stay distinct.              *)
(* ---------------------------------------------------------------------- *)
Str(s)    == [tag |-> "str", s |-> s, n |-> 0]
Num(n)    == [tag |-> "num", s |-> "", n |-> n]
Null      == [tag |-> "null", s |-> "", n |-> 0]
Undefined == [tag |-> "undefined", s |-> "", n |-> 0]

\* WorkerDataType: { type, key, value? }
WorkerDataType ==
    {[type |-> "set", key |-> k, value |-> Str(v)] : k \in Keys, v \in Vals}
    \cup {[type |-> t, key |-> k, value |-> Undefined] : t \in {"get", "del"}, k \in Keys}

\* the result of `await dequeue()` when nothing is returned
NoTask == [type |-> "undefined", key |-> "", value |-> Undefined]

\* JSON.stringify(task): the properties in insertion order, a property
\* whose value is undefined is left out.
JSONstringify(task) ==
    <<"type", task.type, "key", task.key>>
        \o (IF task.value = Undefined THEN <<>> ELSE <<"value", task.value.s>>)

(* ---------------------------------------------------------------------- *)
(* BinaryHeapPriorityQueue.  `heap` is the array; indices in the source    *)
(* are 0-based, At/Put translate.                                          *)
(* ---------------------------------------------------------------------- *)
At(heap, i) == heap[i + 1]

compare(a, b) == a.priority < b.priority

swap(heap, i, j) ==
    [heap EXCEPT ![i + 1] = heap[j + 1], ![j + 1] = heap[i + 1]]

parent(index) == (index - 1) \div 2
leftChild(index) == 2 * index + 1
rightChild(index) == 2 * index + 2

RECURSIVE heapifyUp(_, _)
heapifyUp(heap, index) ==
    IF index > 0 /\ compare(At(heap, index), At(heap, parent(index)))
    THEN heapifyUp(swap(heap, index, parent(index)), parent(index))
    ELSE heap

RECURSIVE heapifyDown(_, _)
heapifyDown(heap, index) ==
    LET length == Len(heap)
        left == leftChild(index)
        right == rightChild(index)
        s1 == IF left < length /\ compare(At(heap, left), At(heap, index))
              THEN left ELSE index
        smallest == IF right < length /\ compare(At(heap, right), At(heap, s1))
                    THEN right ELSE s1
    IN  IF smallest # index
        THEN heapifyDown(swap(heap, index, smallest), smallest)
        ELSE heap

\* BinaryHeapPriorityQueue.enqueue(task, priority)
heapEnqueue(heap, task, priority) ==
    heapifyUp(Append(heap, [task |-> task, priority |-> priority]), Len(heap))

\* BinaryHeapPriorityQueue.dequeue(): the heap that is left
heapDequeueRest(heap) ==
    IF Len(heap) <= 1 THEN <<>>
    ELSE heapifyDown([SubSeq(heap, 1, Len(heap) - 1) EXCEPT ![1] = heap[Len(heap)]], 0)

\* BinaryHeapPriorityQueue.peek() on a non-empty heap
heapPeek(heap) == heap[1].task

(* ---------------------------------------------------------------------- *)
(* AdvancedTaskQueue (heap variant).  A queue value is the pair of its     *)
(* heap array and its taskSet.  An AdvancedTask is                         *)
(* { task, priority, executeAt }; `origin` is a history field naming the   *)
(* runWorker call that submitted it (0 outside the pool).                  *)
(* ---------------------------------------------------------------------- *)
AdvancedTask(task, priority, executeAt, origin) ==
    [task |-> task, priority |-> priority, executeAt |-> executeAt, origin |-> origin]

\* enqueue without the look-up in taskSet
taskQueueEnqueue_noDedup(q, task, priority, executeAt, origin) ==
    [heap |-> heapEnqueue(q.heap, AdvancedTask(task, priority, executeAt, origin), priority),
     taskSet |-> q.taskSet \cup {JSONstringify(task)}]

\* body of enqueue after `await this.mutex.lock()`
taskQueueEnqueue(q, task, priority, executeAt, origin) ==
    LET taskKey == JSONstringify(task)
    IN  IF taskKey \notin q.taskSet
        THEN [heap |-> heapEnqueue(q.heap, AdvancedTask(task, priority, executeAt, origin), priority),
              taskSet |-> q.taskSet \cup {taskKey}]
        ELSE q

\* dequeue that returns the root whether it is ready or not
taskQueueDequeue_noReadyTest(q, t) ==
    IF Len(q.heap) = 0
    THEN [q |-> q, ret |-> NoTask, origin |-> 0]
    ELSE [q |-> [heap |-> heapDequeueRest(q.heap),
                 taskSet |-> q.taskSet \ {JSONstringify(heapPeek(q.heap).task)}],
          ret |-> heapPeek(q.heap).task, origin |-> heapPeek(q.heap).origin]

\* body of dequeue after `await this.mutex.lock()`: the queue that is left
\* and the value returned
taskQueueDequeue(q, t) ==
    IF Len(q.heap) = 0
    THEN [q |-> q, ret |-> NoTask, origin |-> 0]
    ELSE LET task == heapPeek(q.heap)
             rest == heapDequeueRest(q.heap)
         IN  IF task.executeAt <= t
             THEN [q |-> [heap |-> rest, taskSet |-> q.taskSet \ {JSONstringify(task.task)}],
                   ret |-> task.task, origin |-> task.origin]
             ELSE \* not ready: put it back
                  [q |-> [heap |-> heapEnqueue(rest, task, task.priority), taskSet |-> q.taskSet],
                   ret |-> NoTask, origin |-> 0]

\* a polling scan that leaves taskSet alone
RECURSIVE startPolling_keepsDigest(_, _)
startPolling_keepsDigest(q, t) ==
    IF Len(q.heap) > 0 /\ heapPeek(q.heap).executeAt <= t
    THEN startPolling_keepsDigest([heap |-> heapDequeueRest(q.heap), taskSet |-> q.taskSet], t)
    ELSE q

\* body of the setInterval callback of startPolling
RECURSIVE startPolling(_, _)
startPolling(q, t) ==
    IF Len(q.heap) > 0 /\ heapPeek(q.heap).executeAt <= t
    THEN startPolling([heap |-> heapDequeueRest(q.heap),
                       taskSet |-> q.taskSet \ {JSONstringify(heapPeek(q.heap).task)}], t)
    ELSE q

taskQueueSize(q) == Len(q.heap)

EmptyQueue == [heap |-> <<>>, taskSet |-> {}]


(* ---------------------------------------------------------------------- *)
(* ReentrantOctopusMutex.  getCurrentThreadId() is workerData?.c_threadId  *)
(* ?? 0; on the main thread workerData is null, so every caller in the     *)
(* pool is thread 0.                                                       *)
(* ---------------------------------------------------------------------- *)
NoOwner == -1
MainThreadId == 0

NewMutex == [locked |-> FALSE, currentOwner |-> NoOwner, lockCount |-> 0, queue |-> <<>>]

\* lock() as called from the main thread; lockCount is the entry of thread 0
mutexLock(m) ==
    IF m.currentOwner = MainThreadId
    THEN [m EXCEPT !.lockCount = @ + 1]
    ELSE IF m.locked
         THEN [m EXCEPT !.queue = Append(@, MainThreadId)]
         ELSE [m EXCEPT !.locked = TRUE, !.currentOwner = MainThreadId, !.lockCount = @ + 1]

\* unlock() as called from the main thread (the owner)
mutexUnlock(m) ==
    IF m.lockCount > 1
    THEN [m EXCEPT !.lockCount = @ - 1]
    ELSE IF Len(m.queue) > 0
         THEN [m EXCEPT !.lockCount = 0, !.queue = Tail(@)]
         ELSE [m EXCEPT !.lockCount = 0, !.locked = FALSE, !.currentOwner = NoOwner]

(* ---------------------------------------------------------------------- *)
(* worker.ts: the command handler of one execution context on its own     *)
(* store.                                                                  *)
(* ---------------------------------------------------------------------- *)
Absent == [tag |-> "absent", s |-> "", n |-> 0]
EmptyStore == [k \in Keys |-> Absent]

Truthy(v) == ~(v.tag \in {"absent", "null", "undefined"})
             /\ ~(v.tag = "str" /\ v.s = "") /\ ~(v.tag = "num" /\ v.n = 0)

\* parentPort.on('message'): the store afterwards and the result posted
workerOnMessage(store, data) ==
    CASE data.type = "set" ->
            [store |-> [store EXCEPT ![data.key] = data.value], result |-> Str("OK")]
      [] data.type = "get" ->
            [store |-> store,
             result |-> IF Truthy(store[data.key]) THEN store[data.key] ELSE Null]
      [] data.type = "del" ->
            [store |-> [store EXCEPT ![data.key] = Absent],
             result |-> IF store[data.key] # Absent THEN Num(1) ELSE Num(0)]
      [] OTHER -> [store |-> store, result |-> Undefined]

(* ---------------------------------------------------------------------- *)
(* State                                                                   *)
(* ---------------------------------------------------------------------- *)
VARIABLES
    workerPoolMap,      \* Map<number, { worker, metadata }>; worker is an index into workers
    availableWorkers,   \* Set<number> in insertion order
    workerIdCounter,
    maxWorkers,
    workers,            \* every Worker object ever created by the pool
    microtasks,         \* FIFO queue of pending continuations of the main thread
    mutex,              \* the pool's ReentrantOctopusMutex
    taskQueue,          \* the AdvancedTaskQueue: [heap, taskSet]
    now,                \* Date.now()
    futures,            \* the promises returned to callers of runWorker, in call order
    callerActive,       \* caller code may run among the pending microtasks
    hist,               \* history variables used by the properties only
    instance            \* Octopus.instance, the static field of the command facade

\* no Octopus has been constructed
NoInstance == [object |-> 0]

vars == <<workerPoolMap, availableWorkers, workerIdCounter, maxWorkers, workers, microtasks,
          mutex, taskQueue, now, futures, callerActive, hist, instance>>

Range(seq) == {seq[i] : i \in 1..Len(seq)}
SetAdd(seq, x) == IF x \in Range(seq) THEN seq ELSE Append(seq, x)
SetDelete(seq, x) == SelectSeq(seq, LAMBDA y : y # x)
MapSet(map, key, val) == [i \in DOMAIN map \cup {key} |-> IF i = key THEN val ELSE map[i]]
MapDelete(map, key) == [i \in DOMAIN map \ {key} |-> map[i]]

\* the pool as one value, so that the handlers compose sequentially
Pool == [workerPoolMap |-> workerPoolMap, availableWorkers |-> availableWorkers,
         workerIdCounter |-> workerIdCounter, maxWorkers |-> maxWorkers, workers |-> workers,
         microtasks |-> microtasks, mutex |-> mutex, taskQueue |-> taskQueue,
         futures |-> futures, callerActive |-> callerActive, hist |-> hist]

Become(p) ==
    /\ workerPoolMap' = p.workerPoolMap
    /\ availableWorkers' = p.availableWorkers
    /\ workerIdCounter' = p.workerIdCounter
    /\ maxWorkers' = p.maxWorkers
    /\ workers' = p.workers
    /\ microtasks' = p.microtasks
    /\ mutex' = p.mutex
    /\ taskQueue' = p.taskQueue
    /\ futures' = p.futures
    /\ callerActive' = p.callerActive
    /\ hist' = p.hist

\* new Worker(workerPath, { workerData: { c_threadId: workerId } }).
\* initOnce is the once('message') listener of addWorkerToPool; onceMessage,
\* onceError and onceExit hold the once listeners registered by runWorker,
\* each for the promise fut of the call that ships the task of origin.
\* lost and errored are history: the calls in flight when the thread failed.
NewWorker(workerId) ==
    [id |-> workerId, status |-> "running", store |-> EmptyStore, inbox |-> <<>>,
     initOnce |-> TRUE, onceMessage |-> <<>>, onceError |-> <<>>, onceExit |-> <<>>,
     lost |-> <<>>, errored |-> FALSE]

lock(p) == [p EXCEPT !.mutex = mutexLock(@)]
unlock(p) == [p EXCEPT !.mutex = mutexUnlock(@)]
queueMicrotask(p, m) == [p EXCEPT !.microtasks = Append(@, m)]


(* ---------------------------------------------------------------------- *)
(* Promises handed to callers                                              *)
(* ---------------------------------------------------------------------- *)
NewFuture(data, seen) ==
    [data |-> data, status |-> "pending", value |-> Undefined, route |-> "none",
     worker |-> 0, inner |-> "none", posted |-> FALSE, result |-> Undefined, from |-> 0, seen |-> seen]

\* a set(k, v) that resolves while no other write of k is outstanding makes
\* v the value a later get(k) has to see (history only)
Visible(p, f) ==
    LET d == p.futures[f].data
        others == {g \in 1..Len(p.futures) : g # f /\ p.futures[g].status = "pending"
                      /\ p.futures[g].data.type \in {"set", "del"}
                      /\ p.futures[g].data.key = d.key}
    IN  IF d.type = "set" /\ others = {}
        THEN [p.hist.visible EXCEPT ![d.key] = d.value]
        ELSE p.hist.visible

\* resolve(message) of the promise of call f; f = 0 is the promise of the
\* runWorker call made by processQueue, which nobody holds
resolve(p, f, message) ==
    IF f = 0 \/ p.futures[f].status # "pending" THEN p
    ELSE [p EXCEPT !.futures[f].status = "resolved",
                   !.futures[f].value = message.value,
                   !.futures[f].from = message.origin,
                   !.hist.visible = Visible(p, f),
                   !.callerActive = TRUE]

\* an async function that throws returns a rejected promise
reject(p, f, error) ==
    IF f = 0 \/ p.futures[f].status # "pending" THEN p
    ELSE [p EXCEPT !.futures[f].status = "rejected",
                   !.futures[f].value = Str(error),
                   !.callerActive = TRUE]

(* ---------------------------------------------------------------------- *)
(* WorkerPool (workerPoolWithState.ts)                                     *)
(* ---------------------------------------------------------------------- *)
\* addWorkerToPool(workerId, state): a new Worker object under that id
addWorkerToPool(p, workerId, state) ==
    [p EXCEPT !.workers = Append(@, NewWorker(workerId)),
              !.workerPoolMap = MapSet(@, workerId,
                    [worker |-> Len(p.workers) + 1,
                     metadata |-> [id |-> workerId, state |-> state]]),
              !.availableWorkers = SetAdd(@, workerId)]

\* addWorkerToPool(): workerId defaults to this.workerIdCounter++
addNewWorkerToPool(p) ==
    addWorkerToPool([p EXCEPT !.workerIdCounter = @ + 1], p.workerIdCounter, "idle")

RECURSIVE initializeWorkerPool(_)
initializeWorkerPool(p) ==
    IF Cardinality(DOMAIN p.workerPoolMap) < p.maxWorkers
    THEN initializeWorkerPool(addNewWorkerToPool(p))
    ELSE p

removeWorker(p, workerId) ==
    [p EXCEPT !.workerPoolMap = MapDelete(@, workerId),
              !.availableWorkers = SetDelete(@, workerId)]

\* a replacement created whatever the size of the map
replaceIfBelowMax_always(p) ==
    addNewWorkerToPool(p)

\* if (this.workerPoolMap.size < this.maxWorkers) this.addWorkerToPool()
replaceIfBelowMax(p) ==
    IF Cardinality(DOMAIN p.workerPoolMap) < p.maxWorkers THEN addNewWorkerToPool(p) ELSE p

markWorkerAsIdleOrReset(p, workerId) ==
    IF workerId \in DOMAIN p.workerPoolMap
       /\ p.workerPoolMap[workerId].metadata.state # "terminated"
    THEN [p EXCEPT !.workerPoolMap[workerId].metadata.state = "idle",
                   !.availableWorkers = SetAdd(@, workerId)]
    ELSE replaceIfBelowMax(removeWorker(p, workerId))

\* processQueue() up to `await this.taskQueue.dequeue()`
processQueue(p) ==
    IF taskQueueSize(p.taskQueue) > 0 /\ Len(p.availableWorkers) > 0
    THEN queueMicrotask(p, [kind |-> "dequeue"])
    ELSE p

\* shipping that leaves the worker in availableWorkers
shipToWorker_keepsAvailable(p, workerId, data, f, origin) ==
    LET w == p.workerPoolMap[workerId].worker
        alive == p.workers[w].status = "running"
    IN  [p EXCEPT !.workerPoolMap[workerId].metadata.state = "busy",
                  !.workers[w].inbox = IF alive THEN Append(@, [data |-> data, origin |-> origin]) ELSE @,
                  !.workers[w].onceMessage = Append(@, [fut |-> f, origin |-> origin]),
                  !.workers[w].onceError = Append(@, [fut |-> f, origin |-> origin]),
                  !.workers[w].onceExit = Append(@, [fut |-> f, origin |-> origin]),
                  !.futures = IF f = 0 THEN @
                              ELSE [@ EXCEPT ![f].route = "direct", ![f].worker = w],
                  !.hist.shipped = IF f = 0 THEN @ \cup {origin} ELSE @]

\* the part of runWorker that ships data to the worker picked
shipToWorker(p, workerId, data, f, origin) ==
    LET w == p.workerPoolMap[workerId].worker
        alive == p.workers[w].status = "running"
    IN  [p EXCEPT !.workerPoolMap[workerId].metadata.state = "busy",
                  !.availableWorkers = SetDelete(@, workerId),
                  \* worker.postMessage(data): lost when the thread is gone
                  !.workers[w].inbox = IF alive THEN Append(@, [data |-> data, origin |-> origin]) ELSE @,
                  !.workers[w].onceMessage = Append(@, [fut |-> f, origin |-> origin]),
                  !.workers[w].onceError = Append(@, [fut |-> f, origin |-> origin]),
                  !.workers[w].onceExit = Append(@, [fut |-> f, origin |-> origin]),
                  !.futures = IF f = 0 THEN @
                              ELSE [@ EXCEPT ![f].route = "direct", ![f].worker = w],
                  !.hist.shipped = IF f = 0 THEN @ \cup {origin} ELSE @]

\* runWorker(data, priority, delay) called at time t; f is the promise
\* returned (0 when processQueue makes the call)
runWorker(p, data, priority, delay, f, origin, t) ==
    IF Len(p.availableWorkers) = 0
    THEN \* the executor calls taskQueue.enqueue, which runs up to its await;
         \* resolve and reject are not used
         LET q == queueMicrotask(p, [kind |-> "enqueue", task |-> data, priority |-> priority,
                                     executeAt |-> t + delay, origin |-> origin])
         IN  IF f = 0 THEN q ELSE [q EXCEPT !.futures[f].route = "queued"]
    ELSE LET workerId == Head(p.availableWorkers)
         IN  IF workerId \in DOMAIN p.workerPoolMap
                /\ p.workerPoolMap[workerId].metadata.state # "terminated"
             THEN shipToWorker(p, workerId, data, f, origin)
             ELSE reject(p, f, "Worker not found")

\* processQueue() after `await this.taskQueue.dequeue()` returned task
processQueueDispatch(p, task, origin, t) ==
    IF task = NoTask THEN p
    ELSE LET hasFirst == Len(p.availableWorkers) > 0
             workerId == IF hasFirst THEN Head(p.availableWorkers) ELSE 0
             \* `workerId ? ... : undefined`: undefined and 0 are falsy
             workerEntry == hasFirst /\ workerId # 0 /\ workerId \in DOMAIN p.workerPoolMap
         IN  IF workerEntry /\ p.workerPoolMap[workerId].metadata.state = "idle"
             THEN runWorker(p, task, 0, 0, 0, origin, t)
             ELSE [p EXCEPT !.hist.dropped = @ \cup {origin}]

\* worker.once('message') of addWorkerToPool, after `await this.mutex.lock()`
onInitMessage(p, workerId) ==
    LET p1 == IF workerId \in DOMAIN p.workerPoolMap
              THEN [p EXCEPT !.workerPoolMap[workerId].metadata.state = "idle",
                             !.availableWorkers = SetAdd(@, workerId)]
              ELSE p    \* TypeError on undefined, caught and logged
    IN  processQueue(unlock(p1))

\* worker.once('message') of runWorker, after `await this.mutex.lock()`
onResultMessage(p, workerId, f, message) ==
    processQueue(unlock(resolve(addWorkerToPool(p, workerId, "idle"), f, message)))

\* handleWorkerError: the callback of this.mutex.lock().then
handleWorkerError(p, workerId) ==
    processQueue(unlock(markWorkerAsIdleOrReset(p, workerId)))

\* handleWorkerExit: the callback of this.mutex.lock().then
handleWorkerExit(p, workerId, code) ==
    processQueue(unlock(
        IF code # 0
        THEN replaceIfBelowMax(removeWorker(p, workerId))
        ELSE markWorkerAsIdleOrReset(p, workerId)))

\* one continuation of the main thread
runMicrotask(p, m, t) ==
    CASE m.kind = "enqueue" ->
            queueMicrotask([p EXCEPT !.taskQueue =
                               taskQueueEnqueue(@, m.task, m.priority, m.executeAt, m.origin)],
                           [kind |-> "thenProcessQueue"])
      [] m.kind = "thenProcessQueue" -> processQueue(p)
      [] m.kind = "dequeue" ->
            LET r == taskQueueDequeue(p.taskQueue, t)
            IN  queueMicrotask([p EXCEPT !.taskQueue = r.q],
                               [kind |-> "dispatch", task |-> r.ret, origin |-> r.origin])
      [] m.kind = "dispatch" -> processQueueDispatch(p, m.task, m.origin, t)
      [] m.kind = "init" -> onInitMessage(p, m.workerId)
      [] m.kind = "result" -> onResultMessage(p, m.workerId, m.fut, m.message)
      [] m.kind = "error" -> handleWorkerError(p, m.workerId)
      [] m.kind = "exit" -> handleWorkerExit(p, m.workerId, m.code)


(* ---------------------------------------------------------------------- *)
(* Initial state: new WorkerPool(MaxWorkers)                               *)
(* ---------------------------------------------------------------------- *)
NoEvent == [kind |-> "none"]

InitHist == [burst |-> TRUE,
             visible |-> [k \in Keys |-> Undefined],   \* Undefined: not determined
             writes |-> [k \in Keys |-> 0],
             shipped |-> {}, dropped |-> {},
             event |-> NoEvent]

EmptyPool(n) == [workerPoolMap |-> <<>>, availableWorkers |-> <<>>, workerIdCounter |-> 0,
              maxWorkers |-> n, workers |-> <<>>, microtasks |-> <<>>, mutex |-> NewMutex,
              taskQueue |-> EmptyQueue, futures |-> <<>>, callerActive |-> FALSE,
              hist |-> InitHist]

Init ==
    \E n \in 1..MaxWorkers :
    LET p == initializeWorkerPool(EmptyPool(n))
    IN  /\ workerPoolMap = p.workerPoolMap
        /\ maxWorkers = n
        /\ availableWorkers = p.availableWorkers
        /\ workerIdCounter = p.workerIdCounter
        /\ workers = p.workers
        /\ microtasks = p.microtasks
        /\ mutex = p.mutex
        /\ taskQueue = p.taskQueue
        /\ futures = p.futures
        /\ callerActive = p.callerActive
        /\ hist = p.hist
        /\ now = 0
        /\ instance = NoInstance

(* ---------------------------------------------------------------------- *)
(* Actions of the pool                                                     *)
(* ---------------------------------------------------------------------- *)
IsWrite(data) == data.type \in {"set", "del"}

\* a caller calls runWorker(data, priority, delay)
Submit(data, priority, delay) ==
    /\ Len(futures) < MaxCmds
    /\ microtasks = <<>> \/ callerActive
    /\ LET f == Len(futures) + 1
           k == data.key
           writes == IF IsWrite(data) THEN [hist.writes EXCEPT ![k] = @ + 1] ELSE hist.writes
           visible == IF IsWrite(data) THEN [hist.visible EXCEPT ![k] = Undefined]
                      ELSE hist.visible
           seen == [value |-> visible[k], writes |-> writes[k], readyAt |-> now + delay]
           p == [Pool EXCEPT !.futures = Append(@, NewFuture(data, seen)),
                             !.hist.writes = writes,
                             !.hist.visible = visible,
                             !.hist.event = [kind |-> "submit"],
                             !.callerActive = TRUE]
       IN  Become(runWorker(p, data, priority, delay, f, f, now))
    /\ UNCHANGED <<now, instance>>

\* the listeners of one emitted event each run up to their first await:
\* lock() is entered and the continuation is queued
RECURSIVE emit(_, _)
emit(p, ms) ==
    IF ms = <<>> THEN p
    ELSE emit(queueMicrotask(lock(p), Head(ms)), Tail(ms))

Repeat(m, n) == [i \in 1..n |-> m]

\* the worker thread w handles the command at the head of its inbox and
\* the main thread receives the 'message' event
WorkerMessage(w) ==
    /\ microtasks = <<>>
    /\ workers[w].status = "running"
    /\ workers[w].inbox # <<>>
    /\ LET wk == workers[w]
           job == Head(wk.inbox)
           r == workerOnMessage(wk.store, job.data)
           message == [value |-> r.result, origin |-> job.origin]
           listeners ==
               (IF wk.initOnce THEN <<[kind |-> "init", workerId |-> wk.id]>> ELSE <<>>)
               \o [i \in 1..Len(wk.onceMessage) |->
                      [kind |-> "result", workerId |-> wk.id, fut |-> wk.onceMessage[i].fut,
                       message |-> message]]
           p == [Pool EXCEPT !.workers[w].store = r.store,
                             !.workers[w].inbox = Tail(@),
                             !.workers[w].initOnce = FALSE,
                             !.workers[w].onceMessage = <<>>,
                             !.futures[job.origin].posted = TRUE,
                             !.futures[job.origin].result = r.result,
                             !.callerActive = FALSE,
                             !.hist.burst = FALSE,
                             !.hist.event = [kind |-> "message", workerId |-> wk.id,
                                             held |-> taskQueueSize(taskQueue),
                                             shipped |-> hist.shipped]]
       IN  Become(emit(p, listeners))
    /\ UNCHANGED <<now, instance>>

\* the worker thread w fails on the command in flight: 'error' is emitted
\* to worker.on('error') and to every worker.once('error')
WorkerError(w) ==
    /\ microtasks = <<>>
    /\ workers[w].status = "running"
    /\ workers[w].inbox # <<>>
    /\ LET wk == workers[w]
           p == [Pool EXCEPT !.workers[w].status = "failing",
                             !.workers[w].errored = TRUE,
                             !.workers[w].lost = wk.onceMessage,
                             !.workers[w].inbox = <<>>,
                             !.workers[w].onceError = <<>>,
                             !.callerActive = FALSE,
                             !.hist.burst = FALSE,
                             !.hist.event = [kind |-> "error", workerId |-> wk.id, worker |-> w]]
       IN  Become(emit(p, Repeat([kind |-> "error", workerId |-> wk.id], 1 + Len(wk.onceError))))
    /\ UNCHANGED <<now, instance>>

AbnormalExitCodes == {1}

\* the worker thread w ends with a non-zero code (after its error, or with
\* a command in flight): 'exit' is emitted to worker.on('exit') and to
\* every worker.once('exit')
WorkerExit(w, code) ==
    /\ microtasks = <<>>
    /\ \/ workers[w].status = "failing"
       \/ workers[w].status = "running" /\ workers[w].inbox # <<>>
    /\ LET wk == workers[w]
           p == [Pool EXCEPT !.workers[w].status = "exited",
                             !.workers[w].lost = IF wk.errored THEN @ ELSE wk.onceMessage,
                             !.workers[w].inbox = <<>>,
                             !.workers[w].initOnce = FALSE,
                             !.workers[w].onceMessage = <<>>,
                             !.workers[w].onceExit = <<>>,
                             !.callerActive = FALSE,
                             !.hist.burst = FALSE,
                             !.hist.event = [kind |-> "exit", workerId |-> wk.id, worker |-> w,
                                             handlers |-> 1 + Len(wk.onceExit),
                                             created |-> Len(workers)]]
       IN  Become(emit(p, Repeat([kind |-> "exit", workerId |-> wk.id, code |-> code],
                                 1 + Len(wk.onceExit))))
    /\ UNCHANGED <<now, instance>>

\* the main thread runs the next continuation
RunMicrotask ==
    /\ microtasks # <<>>
    /\ LET p == runMicrotask([Pool EXCEPT !.microtasks = Tail(@)], Head(microtasks), now)
       IN  Become([p EXCEPT !.callerActive = @ /\ p.microtasks # <<>>])
    /\ UNCHANGED <<now, instance>>

\* the setInterval callback of the task queue's startPolling
Poll ==
    /\ microtasks = <<>>
    /\ taskQueueSize(taskQueue) > 0
    /\ Become([Pool EXCEPT !.taskQueue = startPolling(@, now),
                            !.callerActive = FALSE,
                            !.hist.burst = FALSE,
                            !.hist.event = [kind |-> "poll"]])
    /\ UNCHANGED <<now, instance>>

\* the façade and processQueue call runWorker(data): priority and delay
\* take their defaults
SubmitPriorities == {0}
SubmitDelays == {0}

\* the commands callers pass to runWorker: a set, a get and a del of the key
SubmitCommands ==
    {data \in WorkerDataType : data.value \in {Undefined, Str("a")}}

Tick ==
    /\ now < MaxTime
    /\ now' = now + 1
    /\ UNCHANGED <<workerPoolMap, availableWorkers, workerIdCounter, maxWorkers, workers,
                   microtasks, mutex, taskQueue, futures, callerActive, hist, instance>>

Next ==
    \/ \E data \in SubmitCommands, priority \in SubmitPriorities, delay \in SubmitDelays :
          Submit(data, priority, delay)
    \/ \E w \in 1..Len(workers) : WorkerMessage(w)
    \/ \E w \in 1..Len(workers) : WorkerError(w)
    \/ \E w \in 1..Len(workers), code \in AbnormalExitCodes : WorkerExit(w, code)
    \/ RunMicrotask
    \/ Poll

Spec == Init /\ [][Next]_vars

TypeOK ==
    /\ Cardinality(DOMAIN workerPoolMap) <= maxWorkers
    /\ mutex.queue = <<>>


(* ---------------------------------------------------------------------- *)
(* Properties of the pool                                                  *)
(* ---------------------------------------------------------------------- *)
Settled == microtasks = <<>>       \* the main thread has run every continuation
FutureIds == 1..Len(futures)
Running == {w \in 1..Len(workers) : workers[w].status = "running"}
InFlightAt(w) == {h.fut : h \in Range(workers[w].lost)} \ {0}

\* C1: a command passed to runWorker while no worker is available has its
\* Future settled with the outcome of executing it: once a worker has
\* executed the command and the main thread has handled the result, the
\* Future is resolved with that result.
C1_QueuedFutureSettled ==
    \A f \in FutureIds :
        (futures[f].route = "queued" /\ futures[f].posted /\ Settled)
            => (futures[f].status = "resolved" /\ futures[f].value = futures[f].result)

\* C3: after set(k, v) resolved, a later get(k) with no set or del of k in
\* between resolves with v.
C3_GetReturnsLastSet ==
    \A f \in FutureIds :
        (/\ futures[f].data.type = "get"
         /\ futures[f].status = "resolved"
         /\ futures[f].seen.value # Undefined
         /\ hist.writes[futures[f].data.key] = futures[f].seen.writes)
            => futures[f].value = futures[f].seen.value

\* C4 (I3): every id in availableWorkers is in workerPoolMap with metadata
\* state idle.
C4_AvailableAreIdle ==
    \A id \in Range(availableWorkers) :
        id \in DOMAIN workerPoolMap /\ workerPoolMap[id].metadata.state = "idle"

C4_Witness ==
    /\ availableWorkers # <<>>
    /\ \E id \in DOMAIN workerPoolMap : workerPoolMap[id].metadata.state = "busy"
    /\ \E f \in FutureIds : futures[f].status = "resolved"
    /\ \E w \in 1..Len(workers) : workers[w].status = "exited"

\* C5 (I4): the execution contexts created and not exited number at most
\* maxWorkers.
C5_AtMostMaxContexts == Cardinality(Running) <= maxWorkers

\* C6: after the exit of a context with a non-zero code has been handled by
\* all its handlers, its id is in neither workerPoolMap nor
\* availableWorkers, one replacement was created and the map has maxWorkers
\* entries; the map never has more.
C6_ExitReplaced ==
    /\ Cardinality(DOMAIN workerPoolMap) <= maxWorkers
    /\ (hist.event.kind = "exit" /\ Settled) =>
          /\ hist.event.workerId \notin DOMAIN workerPoolMap
          /\ hist.event.workerId \notin Range(availableWorkers)
          /\ Len(workers) = hist.event.created + 1
          /\ Cardinality(DOMAIN workerPoolMap) = maxWorkers

C6_Witness ==
    /\ hist.event.kind = "exit" /\ Settled
    /\ hist.event.handlers >= 2
    /\ workers[hist.event.worker].status = "exited"

\* C7: a Future whose command was in flight on a context that exited
\* abnormally is rejected.
C7_CrashRejects ==
    \A w \in 1..Len(workers) :
        (workers[w].status = "exited" /\ Settled) =>
            \A f \in InFlightAt(w) : futures[f].status = "rejected"

\* C8: when a worker reports an error for its in-flight command, the worker
\* is kept in the pool as after a completion and the Future of the command
\* is rejected.
C8_ErrorRejects ==
    (hist.event.kind = "error" /\ Settled) =>
        /\ hist.event.workerId \in DOMAIN workerPoolMap
        /\ \A f \in InFlightAt(hist.event.worker) : futures[f].status = "rejected"

\* C9: 2N distinct commands submitted back to back to a pool of N workers
\* leave N shipped and N queued, and each completion that finds the queue
\* non-empty dispatches a queued task.
C9_BurstThenDrain ==
    /\ (/\ hist.burst /\ Settled
        /\ Len(futures) = 2 * maxWorkers
        /\ \A f, g \in FutureIds : f # g => futures[f].data # futures[g].data)
          => /\ Cardinality({f \in FutureIds : futures[f].route = "direct"}) = maxWorkers
             /\ taskQueueSize(taskQueue) = maxWorkers
    /\ (hist.event.kind = "message" /\ hist.event.held > 0 /\ Settled)
          => hist.shipped # hist.event.shipped


(* ---------------------------------------------------------------------- *)
(* The AdvancedTaskQueue on its own: callers enqueue and dequeue, the      *)
(* polling timer fires, time passes.  Each operation is taken as a whole   *)
(* (its body runs in one continuation).                                    *)
(* ---------------------------------------------------------------------- *)
poolVars == <<workerPoolMap, availableWorkers, workerIdCounter, maxWorkers, workers,
              microtasks, mutex, futures, callerActive>>

InHeap(q, task) ==
    \E i \in 1..Len(q.heap) : JSONstringify(q.heap[i].task.task) = JSONstringify(task)

QueueEnqueue(task, priority, delay) ==
    /\ Len(taskQueue.heap) < MaxQueue \/ InHeap(taskQueue, task)
    /\ taskQueue' = taskQueueEnqueue(taskQueue, task, priority, now + delay, 0)
    /\ hist' = [hist EXCEPT !.event = [kind |-> "enqueue", task |-> task,
                                       present |-> JSONstringify(task) \in taskQueue.taskSet,
                                       inHeap |-> InHeap(taskQueue, task),
                                       before |-> taskQueue]]
    /\ UNCHANGED <<poolVars, now, instance>>

QueueDequeue ==
    /\ LET r == taskQueueDequeue(taskQueue, now)
       IN  /\ taskQueue' = r.q
           /\ hist' = [hist EXCEPT !.event = [kind |-> "dequeue", ret |-> r.ret,
                                              before |-> taskQueue]]
    /\ UNCHANGED <<poolVars, now, instance>>

QueuePoll ==
    /\ taskQueue' = startPolling(taskQueue, now)
    /\ hist' = [hist EXCEPT !.event = [kind |-> "poll", before |-> taskQueue]]
    /\ UNCHANGED <<poolVars, now, instance>>

NextQueue ==
    \/ \E task \in WorkerDataType, priority \in Priorities, delay \in Delays :
          QueueEnqueue(task, priority, delay)
    \/ QueueDequeue
    \/ QueuePoll
    \/ Tick

InitQueue == Init /\ maxWorkers = 1

SpecQueue == InitQueue /\ [][NextQueue]_vars

\* C10: enqueue of a task whose digest is already in the queue leaves the
\* heap, the dedup set and size() as they were.
C10_EnqueueIdempotent ==
    (hist.event.kind = "enqueue" /\ hist.event.present) =>
        /\ taskQueue = hist.event.before
        /\ taskQueueSize(taskQueue) = taskQueueSize(hist.event.before)

C10_Witness ==
    /\ hist.event.kind = "enqueue" /\ hist.event.present /\ hist.event.inHeap
    /\ taskQueueSize(taskQueue) >= 2

\* the AdvancedTasks held in a heap array, and their digests
HeapTasks(heap) == {heap[i].task : i \in 1..Len(heap)}
HeapDigests(heap) == {JSONstringify(a.task) : a \in HeapTasks(heap)}

\* sort key (ready-at, priority): a comes no later than b
ReadyAtThenPriority(a, b) ==
    \/ a.executeAt < b.executeAt
    \/ a.executeAt = b.executeAt /\ a.priority <= b.priority

\* C11: when every task in the queue is ready, dequeue() returns the task
\* that comes first in the order (ready-at ascending, then priority
\* ascending), so successive dequeues return the tasks sorted that way.
C11_DequeueSortedByReadyAtPriority ==
    (/\ hist.event.kind = "dequeue"
     /\ hist.event.ret # NoTask
     /\ \A a \in HeapTasks(hist.event.before.heap) : a.executeAt <= now)
        => \A a \in HeapTasks(hist.event.before.heap) :
              ReadyAtThenPriority(heapPeek(hist.event.before.heap), a)

\* C12: dequeue() never returns a task whose executeAt is later than the
\* current time, and a root that is popped while not ready is put back:
\* the queue then holds the same tasks and digests as before.
C12_DequeueOnlyReady ==
    (hist.event.kind = "dequeue") =>
        /\ hist.event.ret # NoTask =>
              /\ heapPeek(hist.event.before.heap).executeAt <= now
              /\ hist.event.ret = heapPeek(hist.event.before.heap).task
        /\ hist.event.ret = NoTask =>
              /\ HeapTasks(taskQueue.heap) = HeapTasks(hist.event.before.heap)
              /\ Len(taskQueue.heap) = Len(hist.event.before.heap)
              /\ taskQueue.taskSet = hist.event.before.taskSet

C12_Witness ==
    /\ hist.event.kind = "dequeue"
    /\ hist.event.ret = NoTask
    /\ Len(hist.event.before.heap) >= 2
    /\ heapPeek(hist.event.before.heap).executeAt > now

\* C13 (I1): a digest is in taskSet if and only if a task with that digest
\* is in the heap.
C13_DigestIffInHeap ==
    /\ taskQueue.taskSet = HeapDigests(taskQueue.heap)
    /\ Cardinality(taskQueue.taskSet) = Len(taskQueue.heap)

C13_Witness ==
    /\ hist.event.kind = "poll"
    /\ Len(hist.event.before.heap) >= 2
    /\ Len(taskQueue.heap) < Len(hist.event.before.heap)
    /\ taskQueue.heap # <<>>


(* ---------------------------------------------------------------------- *)
(* WorkerPoolOCC: the pool whose dispatch goes through                     *)
(* OCCHandler.performOperation.  Its listeners take no lock and run        *)
(* within the event; worker metadata carries a version.                    *)
(* ---------------------------------------------------------------------- *)
\* continuation m becomes runnable n microtask turns from now
after(p, n, m) ==
    queueMicrotask(p, IF n <= 1 THEN m ELSE [kind |-> "turn", n |-> n - 1, next |-> m])

occAddWorkerToPool(p, workerId, state) ==
    [p EXCEPT !.workers = Append(@, NewWorker(workerId)),
              !.workerPoolMap = MapSet(@, workerId,
                    [worker |-> Len(p.workers) + 1,
                     metadata |-> [id |-> workerId, state |-> state, version |-> 0]]),
              !.availableWorkers = SetAdd(@, workerId)]

occAddNewWorkerToPool(p) ==
    occAddWorkerToPool([p EXCEPT !.workerIdCounter = @ + 1], p.workerIdCounter, "idle")

RECURSIVE occInitializeWorkerPool(_)
occInitializeWorkerPool(p) ==
    IF Cardinality(DOMAIN p.workerPoolMap) < p.maxWorkers
    THEN occInitializeWorkerPool(occAddNewWorkerToPool(p))
    ELSE p

occReplaceIfBelowMax(p) ==
    IF Cardinality(DOMAIN p.workerPoolMap) < p.maxWorkers THEN occAddNewWorkerToPool(p) ELSE p

occMarkWorkerAsIdleOrReset(p, workerId) ==
    IF workerId \in DOMAIN p.workerPoolMap
       /\ p.workerPoolMap[workerId].metadata.state # "terminated"
    THEN [p EXCEPT !.workerPoolMap[workerId].metadata.state = "idle",
                   !.availableWorkers = SetAdd(@, workerId)]
    ELSE occReplaceIfBelowMax(removeWorker(p, workerId))

\* OCCHandler.incrementVersion(id)
incrementVersion(p, id) ==
    IF id \in DOMAIN p.workerPoolMap
    THEN [p EXCEPT !.workerPoolMap[id].metadata.version = @ + 1]
    ELSE p

\* the operation passed to performOperation, up to the promise it returns
occOperation(p, workerId, data, f, origin) ==
    LET w == p.workerPoolMap[workerId].worker
        alive == p.workers[w].status = "running"
        call == [fut |-> f, origin |-> origin]
    IN  [p EXCEPT !.workerPoolMap[workerId].metadata.state = "busy",
                  !.availableWorkers = SetDelete(@, workerId),
                  !.workers[w].inbox = IF alive THEN Append(@, [data |-> data, origin |-> origin]) ELSE @,
                  !.workers[w].onceMessage = Append(@, call),
                  !.workers[w].onceError = Append(@, call),
                  !.workers[w].onceExit = Append(@, call),
                  !.futures = [@ EXCEPT ![origin].inner = "pending",
                                        ![f].route = IF f = 0 THEN @ ELSE "direct",
                                        ![f].worker = IF f = 0 THEN @ ELSE w],
                  !.hist.shipped = IF f = 0 THEN @ \cup {origin} ELSE @]

\* WorkerPoolOCC.runWorker(data, priority, delay)
occRunWorker(p, data, priority, delay, f, origin, t) ==
    IF Len(p.availableWorkers) = 0
    THEN LET q == queueMicrotask(p, [kind |-> "enqueue", task |-> data, priority |-> priority,
                                     executeAt |-> t + delay, origin |-> origin])
         IN  IF f = 0 THEN q ELSE [q EXCEPT !.futures[f].route = "queued"]
    ELSE LET workerId == Head(p.availableWorkers)
         IN  IF workerId \in DOMAIN p.workerPoolMap
                /\ p.workerPoolMap[workerId].metadata.state # "terminated"
             THEN \* validateVersion reads the version just read: no conflict
                  occOperation(p, workerId, data, f, origin)
             ELSE reject(p, f, "Worker not found")

\* the promise returned by the operation settles once
occSettleOperation(p, workerId, call, ok) ==
    IF p.futures[call.origin].inner # "pending" THEN p
    ELSE after([p EXCEPT !.futures[call.origin].inner = "settled"], 2,
               [kind |-> "afterOperation", workerId |-> workerId, fut |-> call.fut, ok |-> ok])

\* performOperation after `await operation(data)`: incrementVersion, or the
\* catch whose Promise.reject is not returned
occAfterOperation(p, workerId, f, ok) ==
    queueMicrotask(IF ok THEN incrementVersion(p, workerId) ELSE p,
                   [kind |-> "afterPerform", fut |-> f])

\* runWorker after `await performOperation`: finally processQueue(); the
\* function ends without a return value
occAfterPerform(p, f) ==
    resolve(processQueue(p), f, [value |-> Undefined, origin |-> f])

occProcessQueueDispatch(p, task, origin, t) ==
    IF task = NoTask THEN p
    ELSE LET hasFirst == Len(p.availableWorkers) > 0
             workerId == IF hasFirst THEN Head(p.availableWorkers) ELSE 0
             workerEntry == hasFirst /\ workerId # 0 /\ workerId \in DOMAIN p.workerPoolMap
         IN  IF workerEntry /\ p.workerPoolMap[workerId].metadata.state = "idle"
             THEN occRunWorker(p, task, 0, 0, 0, origin, t)
             ELSE [p EXCEPT !.hist.dropped = @ \cup {origin}]

\* worker.once('message') of addWorkerToPool
occOnInitMessage(p, workerId) ==
    processQueue(IF workerId \in DOMAIN p.workerPoolMap
                 THEN [p EXCEPT !.workerPoolMap[workerId].metadata.state = "idle",
                                !.availableWorkers = SetAdd(@, workerId)]
                 ELSE p)

\* worker.once('message') of runWorker
occOnResultMessage(p, workerId, call) ==
    occSettleOperation(occAddWorkerToPool(p, workerId, "idle"), workerId, call, TRUE)

occHandleWorkerError(p, workerId) ==
    processQueue(occReplaceIfBelowMax(removeWorker(p, workerId)))

occHandleWorkerExit(p, workerId, code) ==
    processQueue(IF code # 0
                 THEN occReplaceIfBelowMax(removeWorker(p, workerId))
                 ELSE occMarkWorkerAsIdleOrReset(p, workerId))

occRunMicrotask(p, m, t) ==
    CASE m.kind = "enqueue" ->
            queueMicrotask([p EXCEPT !.taskQueue =
                               taskQueueEnqueue(@, m.task, m.priority, m.executeAt, m.origin)],
                           [kind |-> "thenProcessQueue"])
      [] m.kind = "thenProcessQueue" -> processQueue(p)
      [] m.kind = "dequeue" ->
            LET r == taskQueueDequeue(p.taskQueue, t)
            IN  queueMicrotask([p EXCEPT !.taskQueue = r.q],
                               [kind |-> "dispatch", task |-> r.ret, origin |-> r.origin])
      [] m.kind = "dispatch" -> occProcessQueueDispatch(p, m.task, m.origin, t)
      [] m.kind = "turn" -> after(p, m.n, m.next)
      [] m.kind = "afterOperation" -> occAfterOperation(p, m.workerId, m.fut, m.ok)
      [] m.kind = "afterPerform" -> occAfterPerform(p, m.fut)

occOnError(p, workerId, call) ==
    occSettleOperation(occHandleWorkerError(p, workerId), workerId, call, FALSE)

occOnExit(p, workerId, call) ==
    occSettleOperation(occHandleWorkerExit(p, workerId, 1), workerId, call, FALSE)

\* the listeners registered by runWorker run one after the other
RECURSIVE occEachMessage(_, _, _)
occEachMessage(p, workerId, calls) ==
    IF calls = <<>> THEN p
    ELSE occEachMessage(occOnResultMessage(p, workerId, Head(calls)), workerId, Tail(calls))

RECURSIVE occEachError(_, _, _)
occEachError(p, workerId, calls) ==
    IF calls = <<>> THEN p
    ELSE occEachError(occOnError(p, workerId, Head(calls)), workerId, Tail(calls))

RECURSIVE occEachExit(_, _, _)
occEachExit(p, workerId, calls) ==
    IF calls = <<>> THEN p
    ELSE occEachExit(occOnExit(p, workerId, Head(calls)), workerId, Tail(calls))

OccInit ==
    \E n \in 1..MaxWorkers :
    LET p == occInitializeWorkerPool(EmptyPool(n))
    IN  /\ workerPoolMap = p.workerPoolMap
        /\ maxWorkers = n
        /\ availableWorkers = p.availableWorkers
        /\ workerIdCounter = p.workerIdCounter
        /\ workers = p.workers
        /\ microtasks = p.microtasks
        /\ mutex = p.mutex
        /\ taskQueue = p.taskQueue
        /\ futures = p.futures
        /\ callerActive = p.callerActive
        /\ hist = p.hist
        /\ now = 0
        /\ instance = NoInstance

OccSubmit(data, priority, delay) ==
    /\ Len(futures) < MaxCmds
    /\ microtasks = <<>> \/ callerActive
    /\ LET f == Len(futures) + 1
           seen == [value |-> Undefined, writes |-> 0]
           p == [Pool EXCEPT !.futures = Append(@, NewFuture(data, seen)),
                             !.hist.event = [kind |-> "submit"],
                             !.callerActive = TRUE]
       IN  Become(occRunWorker(p, data, priority, delay, f, f, now))
    /\ UNCHANGED <<now, instance>>

OccWorkerMessage(w) ==
    /\ microtasks = <<>>
    /\ workers[w].status = "running"
    /\ workers[w].inbox # <<>>
    /\ LET wk == workers[w]
           job == Head(wk.inbox)
           r == workerOnMessage(wk.store, job.data)
           p == [Pool EXCEPT !.workers[w].store = r.store,
                             !.workers[w].inbox = Tail(@),
                             !.workers[w].initOnce = FALSE,
                             !.workers[w].onceMessage = <<>>,
                             !.futures[job.origin].posted = TRUE,
                             !.futures[job.origin].result = r.result,
                             !.callerActive = FALSE,
                             !.hist.burst = FALSE,
                             !.hist.event = [kind |-> "message", workerId |-> wk.id,
                                             held |-> taskQueueSize(taskQueue),
                                             shipped |-> hist.shipped]]
           p1 == IF wk.initOnce THEN occOnInitMessage(p, wk.id) ELSE p
       IN  Become(occEachMessage(p1, wk.id, wk.onceMessage))
    /\ UNCHANGED <<now, instance>>

OccWorkerError(w) ==
    /\ microtasks = <<>>
    /\ workers[w].status = "running"
    /\ workers[w].inbox # <<>>
    /\ LET wk == workers[w]
           p == [Pool EXCEPT !.workers[w].status = "failing",
                             !.workers[w].errored = TRUE,
                             !.workers[w].lost = wk.onceMessage,
                             !.workers[w].inbox = <<>>,
                             !.workers[w].onceError = <<>>,
                             !.callerActive = FALSE,
                             !.hist.burst = FALSE,
                             !.hist.event = [kind |-> "error", workerId |-> wk.id, worker |-> w]]
       IN  Become(occEachError(occHandleWorkerError(p, wk.id), wk.id, wk.onceError))
    /\ UNCHANGED <<now, instance>>

OccWorkerExit(w) ==
    /\ microtasks = <<>>
    /\ \/ workers[w].status = "failing"
       \/ workers[w].status = "running" /\ workers[w].inbox # <<>>
    /\ LET wk == workers[w]
           p == [Pool EXCEPT !.workers[w].status = "exited",
                             !.workers[w].lost = IF wk.errored THEN @ ELSE wk.onceMessage,
                             !.workers[w].inbox = <<>>,
                             !.workers[w].initOnce = FALSE,
                             !.workers[w].onceMessage = <<>>,
                             !.workers[w].onceExit = <<>>,
                             !.callerActive = FALSE,
                             !.hist.burst = FALSE,
                             !.hist.event = [kind |-> "exit", workerId |-> wk.id, worker |-> w,
                                             handlers |-> 1 + Len(wk.onceExit),
                                             created |-> Len(workers)]]
       IN  Become(occEachExit(occHandleWorkerExit(p, wk.id, 1), wk.id, wk.onceExit))
    /\ UNCHANGED <<now, instance>>

OccRunMicrotask ==
    /\ microtasks # <<>>
    /\ LET p == occRunMicrotask([Pool EXCEPT !.microtasks = Tail(@)], Head(microtasks), now)
       IN  Become([p EXCEPT !.callerActive = @ /\ p.microtasks # <<>>])
    /\ UNCHANGED <<now, instance>>

NextOCC ==
    \/ \E data \in SubmitCommands, priority \in SubmitPriorities, delay \in SubmitDelays :
          OccSubmit(data, priority, delay)
    \/ \E w \in 1..Len(workers) : OccWorkerMessage(w)
    \/ \E w \in 1..Len(workers) : OccWorkerError(w)
    \/ \E w \in 1..Len(workers) : OccWorkerExit(w)
    \/ OccRunMicrotask
    \/ Poll

SpecOCC == OccInit /\ [][NextOCC]_vars

\* C2: a command shipped directly to an idle worker has its Future resolved
\* with the value that worker posted for that command: once the worker has
\* posted the result and the main thread has handled it, the Future holds
\* that result, coming from its own command.
C2_DirectFutureGetsResult ==
    \A f \in FutureIds :
        (futures[f].route = "direct" /\ futures[f].posted /\ Settled)
            => /\ futures[f].status = "resolved"
               /\ futures[f].value = futures[f].result
               /\ futures[f].from = f

\* C21: for each worker id of the OCC pool, the metadata version never
\* decreases: no step of the pool takes the version recorded for an id that
\* stays in the pool to a smaller number.
C21_VersionNeverDecreases ==
    [][\A id \in DOMAIN workerPoolMap \cap DOMAIN workerPoolMap' :
          workerPoolMap'[id].metadata.version >= workerPoolMap[id].metadata.version]_vars


(* ---------------------------------------------------------------------- *)
(* ReentrantOctopusMutex used by several contexts.  A context is known to  *)
(* the mutex by the number getCurrentThreadId() returns for it.  `mutex`   *)
(* holds the object's fields (lockCount as the Map, a missing entry being  *)
(* 0; queue as the contexts whose resolvers it holds), `microtasks` the    *)
(* contexts whose `await new Promise(...)` in lock() has been resolved and *)
(* whose continuation has not run yet.  hist.held counts, per context,     *)
(* the lock() calls completed and not yet undone by an unlock();           *)
(* hist.pending lists the contexts blocked in lock(), in call order.       *)
(* ---------------------------------------------------------------------- *)
MaxContexts == 3       \* contexts sharing one mutex
MaxDepth == 2          \* acquisitions a context nests

Contexts == 1..MaxContexts

NewReentrantMutex ==
    [locked |-> FALSE, currentOwner |-> NoOwner,
     lockCount |-> [c \in Contexts |-> 0], queue |-> <<>>]

\* lock() up to its first suspension, called by currentThreadId
reentrantLock(m, currentThreadId) ==
    IF m.currentOwner = currentThreadId
    THEN [m |-> [m EXCEPT !.lockCount[currentThreadId] = @ + 1], completed |-> TRUE]
    ELSE IF m.locked
         THEN [m |-> [m EXCEPT !.queue = Append(@, currentThreadId)], completed |-> FALSE]
         ELSE [m |-> [m EXCEPT !.locked = TRUE, !.currentOwner = currentThreadId,
                               !.lockCount[currentThreadId] = @ + 1],
               completed |-> TRUE]

\* lock() after `await new Promise(resolve => this.queue.push(resolve))`
reentrantLockResumed(m, currentThreadId) ==
    [m EXCEPT !.locked = TRUE, !.currentOwner = currentThreadId,
              !.lockCount[currentThreadId] = @ + 1]

\* unlock() called by currentThreadId: the fields, whether it threw, and
\* the waiter whose resolver it called
reentrantUnlock(m, currentThreadId) ==
    IF m.currentOwner # currentThreadId
    THEN [m |-> m, threw |-> TRUE, resumed |-> <<>>]
    ELSE IF m.lockCount[currentThreadId] > 1
         THEN [m |-> [m EXCEPT !.lockCount[currentThreadId] = @ - 1],
               threw |-> FALSE, resumed |-> <<>>]
         ELSE IF Len(m.queue) > 0
              THEN [m |-> [m EXCEPT !.lockCount[currentThreadId] = 0, !.queue = Tail(@)],
                    threw |-> FALSE, resumed |-> <<Head(m.queue)>>]
              ELSE [m |-> [m EXCEPT !.lockCount[currentThreadId] = 0,
                                    !.locked = FALSE, !.currentOwner = NoOwner],
                    threw |-> FALSE, resumed |-> <<>>]

mutexRest == <<workerPoolMap, availableWorkers, workerIdCounter, maxWorkers, workers,
               taskQueue, futures, callerActive, now, instance>>

\* a context is running its own code: not suspended inside lock()
Runs(c) == c \notin Range(mutex.queue) /\ c \notin Range(microtasks)

Without(seq, c) == SelectSeq(seq, LAMBDA x : x # c)

MutexLock(c) ==
    /\ Runs(c)
    /\ hist.held[c] < MaxDepth
    /\ LET r == reentrantLock(mutex, c)
       IN  /\ mutex' = r.m
           /\ hist' = [held |-> IF r.completed THEN [hist.held EXCEPT ![c] = @ + 1]
                                ELSE hist.held,
                       pending |-> IF r.completed THEN hist.pending
                                   ELSE Append(hist.pending, c),
                       event |-> [kind |-> IF r.completed THEN "acquired" ELSE "blocked",
                                  by |-> c, before |-> mutex,
                                  held |-> hist.held, pending |-> hist.pending]]
    /\ UNCHANGED <<microtasks, mutexRest>>

MutexResume ==
    /\ microtasks # <<>>
    /\ LET c == Head(microtasks)
       IN  /\ mutex' = reentrantLockResumed(mutex, c)
           /\ microtasks' = Tail(microtasks)
           /\ hist' = [held |-> [hist.held EXCEPT ![c] = @ + 1],
                       pending |-> Without(hist.pending, c),
                       event |-> [kind |-> "acquired", by |-> c, before |-> mutex,
                                  held |-> hist.held, pending |-> hist.pending]]
    /\ UNCHANGED mutexRest

MutexUnlock(c) ==
    /\ Runs(c)
    /\ LET r == reentrantUnlock(mutex, c)
       IN  /\ mutex' = r.m
           /\ microtasks' = microtasks \o r.resumed
           /\ hist' = [held |-> IF ~r.threw /\ hist.held[c] > 0
                                THEN [hist.held EXCEPT ![c] = @ - 1] ELSE hist.held,
                       pending |-> hist.pending,
                       event |-> [kind |-> "unlock", by |-> c, before |-> mutex,
                                  held |-> hist.held, pending |-> hist.pending,
                                  threw |-> r.threw, resumed |-> r.resumed]]
    /\ UNCHANGED mutexRest

InitMutex ==
    /\ mutex = NewReentrantMutex
    /\ microtasks = <<>>
    /\ hist = [held |-> [c \in Contexts |-> 0], pending |-> <<>>, event |-> NoEvent]
    /\ workerPoolMap = <<>> /\ availableWorkers = <<>> /\ workerIdCounter = 0
    /\ maxWorkers = 1 /\ workers = <<>> /\ taskQueue = EmptyQueue /\ futures = <<>>
    /\ callerActive = FALSE /\ now = 0
    /\ instance = NoInstance

NextMutex ==
    \/ \E c \in Contexts : MutexLock(c)
    \/ \E c \in Contexts : MutexUnlock(c)
    \/ MutexResume

SpecMutex == InitMutex /\ [][NextMutex]_vars

Holders == {c \in Contexts : hist.held[c] > 0}

\* C14: mutual exclusion between distinct contexts: while a context has
\* completed lock() and not released all its acquisitions, no other
\* context has a completed lock(), also across the hand-off to a waiter.
C14_MutualExclusion == Cardinality(Holders) <= 1

\* C15: a context that has completed lock() N times holds the mutex until
\* its N-th unlock(): it is the owner and its count is the number of
\* acquisitions it has not released yet; an unlock() before the N-th only
\* decrements the count.
C15_HeldUntilNthUnlock ==
    /\ \A c \in Holders : mutex.currentOwner = c /\ mutex.lockCount[c] = hist.held[c]
    /\ (hist.event.kind = "unlock" /\ hist.event.held[hist.event.by] > 1) =>
          /\ ~hist.event.threw
          /\ hist.event.resumed = <<>>
          /\ mutex = [hist.event.before EXCEPT !.lockCount[hist.event.by] = @ - 1]

\* C16: unlock() by a context that is not the owner (it holds no
\* acquisition; the mutex may be free) throws and leaves the owner, the
\* counts and the wait queue as they were.
C16_UnlockByNonOwnerThrows ==
    (hist.event.kind = "unlock" /\ hist.event.held[hist.event.by] = 0) =>
        /\ hist.event.threw
        /\ mutex = hist.event.before
        /\ hist.event.resumed = <<>>

\* C17: blocked contexts acquire in the order of their lock() calls, and
\* no context acquires while an earlier caller is still waiting: whoever
\* completes lock() while contexts are blocked is the first of them.
C17_FifoAcquisition ==
    (hist.event.kind = "acquired" /\ hist.event.pending # <<>>) =>
        \/ hist.event.by = Head(hist.event.pending)
        \/ hist.event.held[hist.event.by] > 0


(* ---------------------------------------------------------------------- *)
(* OCCHandler on its own.  getData(id) reads workerPoolMap[id].metadata;   *)
(* `futures` holds the performOperation calls made, `microtasks` the       *)
(* continuations of their `await operation(data)`.  The operation is the   *)
(* caller's: it returns a promise that later fulfils or rejects.           *)
(* hist.unhandled lists the promises made by Promise.reject(...) that      *)
(* nothing is attached to.                                                 *)
(* ---------------------------------------------------------------------- *)
MaxCalls == 3          \* performOperation calls made
MaxVersion == 2        \* expected versions callers pass are in 0..MaxVersion

OccIds == {0, 1}

\* OCCHandler.validateVersion(id, expectedVersion)
validateVersion(p, id, expectedVersion) ==
    IF id \in DOMAIN p.workerPoolMap
    THEN p.workerPoolMap[id].metadata.version = expectedVersion
    ELSE FALSE

\* performOperation(workerId, expectedVersion, operation) up to
\* `await operation(data)`
performOperation(p, workerId, expectedVersion) ==
    LET valid == validateVersion(p, workerId, expectedVersion)
        call == [id |-> workerId, expectedVersion |-> expectedVersion, valid |-> valid,
                 op |-> "running", status |-> "pending", error |-> ""]
    IN  [p EXCEPT !.futures = Append(@, call),
                  !.hist.unhandled = IF valid THEN @
                                     ELSE Append(@, "Conflict detected: data has been modified")]

\* performOperation after the await: the try block's second statement or
\* the catch block, then the end of the function
performOperationResumed(p, call, ok) ==
    LET q == IF ok THEN incrementVersion(p, p.futures[call].id)
             ELSE [p EXCEPT !.hist.unhandled = Append(@, "Operation failed")]
    IN  [q EXCEPT !.futures[call].status = "resolved"]

handlerRest == <<availableWorkers, workerIdCounter, maxWorkers, workers, mutex, taskQueue,
                 callerActive, now, instance>>

HandlerVersion(id) == workerPoolMap[id].metadata.version

HandlerPerform(workerId, expectedVersion) ==
    /\ Len(futures) < MaxCalls
    /\ LET p == performOperation([Pool EXCEPT !.hist.event =
                     [kind |-> "perform", call |-> Len(futures) + 1,
                      version |-> HandlerVersion(workerId)]], workerId, expectedVersion)
       IN  /\ futures' = p.futures
           /\ hist' = p.hist
           /\ workerPoolMap' = p.workerPoolMap
    /\ UNCHANGED <<microtasks, handlerRest>>

\* the promise the operation returned fulfils (ok) or rejects
HandlerOperationSettles(call, ok) ==
    /\ futures[call].op = "running"
    /\ futures' = [futures EXCEPT ![call].op = IF ok THEN "returned" ELSE "threw"]
    /\ microtasks' = Append(microtasks, [kind |-> "afterOperation", call |-> call, ok |-> ok])
    /\ hist' = [hist EXCEPT !.event = [kind |-> "settles", call |-> call,
                                       version |-> HandlerVersion(futures[call].id)]]
    /\ UNCHANGED <<workerPoolMap, handlerRest>>

HandlerRunMicrotask ==
    /\ microtasks # <<>>
    /\ LET m == Head(microtasks)
           p == performOperationResumed(
                    [Pool EXCEPT !.microtasks = Tail(@),
                                 !.hist.event = [kind |-> "afterOperation", call |-> m.call,
                                                 ok |-> m.ok,
                                                 version |-> HandlerVersion(futures[m.call].id)]],
                    m.call, m.ok)
       IN  /\ futures' = p.futures
           /\ hist' = p.hist
           /\ workerPoolMap' = p.workerPoolMap
           /\ microtasks' = p.microtasks
    /\ UNCHANGED handlerRest

InitHandler ==
    /\ workerPoolMap = [id \in OccIds |->
                           [worker |-> 0, metadata |-> [id |-> id, state |-> "idle", version |-> 0]]]
    /\ futures = <<>>
    /\ microtasks = <<>>
    /\ hist = [unhandled |-> <<>>, event |-> NoEvent]
    /\ availableWorkers = <<>> /\ workerIdCounter = 0 /\ maxWorkers = 1 /\ workers = <<>>
    /\ mutex = NewMutex /\ taskQueue = EmptyQueue /\ callerActive = FALSE /\ now = 0
    /\ instance = NoInstance

NextHandler ==
    \/ \E workerId \in OccIds, expectedVersion \in 0..MaxVersion :
          HandlerPerform(workerId, expectedVersion)
    \/ \E call \in 1..Len(futures), ok \in BOOLEAN : HandlerOperationSettles(call, ok)
    \/ HandlerRunMicrotask

SpecHandler == InitHandler /\ [][NextHandler]_vars

\* C18: of the performOperation calls on one id that carry the same
\* expected version and were made while the id had that version, exactly
\* one succeeds; every other one fails with a Conflict error and its
\* operation is not run.
C18_OneWinnerPerVersion ==
    \A i, j \in 1..Len(futures) :
        (/\ i < j
         /\ futures[i].id = futures[j].id
         /\ futures[i].expectedVersion = futures[j].expectedVersion
         /\ futures[i].valid /\ futures[j].valid
         /\ futures[i].op # "threw" /\ futures[j].op # "threw"
         /\ futures[i].status # "pending" /\ futures[j].status # "pending")
            => \E w, l \in {i, j} :
                  /\ w # l
                  /\ futures[w].status = "resolved"
                  /\ futures[l].status = "rejected"
                  /\ futures[l].op = "notRun"

\* C19: a successful performOperation raises the version of its id by
\* exactly 1; a call whose expected version did not match, or whose
\* operation failed, leaves the version as it was.
C19_VersionBumpedOnlyOnSuccess ==
    (hist.event.kind = "afterOperation") =>
        LET call == futures[hist.event.call]
        IN  HandlerVersion(call.id) =
                IF call.valid /\ hist.event.ok THEN hist.event.version + 1
                ELSE hist.event.version

\* C20: when the operation throws (its promise rejects), performOperation
\* fails to its caller with an operation-failed error and the version is
\* unchanged: the call never ends as a success.
C20_FailedOperationRejects ==
    \A i \in 1..Len(futures) :
        (futures[i].op = "threw" /\ futures[i].status # "pending")
            => futures[i].status = "rejected"


(* ---------------------------------------------------------------------- *)
(* TransactionManager and Transaction, all called from the main thread.    *)
(* `workers` holds every Transaction object created, at the index of its   *)
(* id; `workerPoolMap` is the manager's `transactions` Map (id to object), *)
(* `workerIdCounter` its transactionIdCounter.  `futures` holds the calls  *)
(* of endTransaction and rollbackTransaction, `microtasks` the             *)
(* continuations of their awaits.  An operation is the caller's closure:   *)
(* the promise it returns fulfils or rejects later.                        *)
(* ---------------------------------------------------------------------- *)
MaxTx == 2             \* transactions started
MaxOps == 2            \* operations added to one transaction
MaxTxCalls == 3        \* endTransaction / rollbackTransaction calls made

TxIds == 1..MaxTx

NoError == ""
OperationError == "operation failed"

\* new Transaction(id)
NewTransaction(id) == [id |-> id, operations |-> <<>>, mutex |-> NewMutex, isCommitted |-> FALSE]

\* Transaction.begin(): lock() runs to its end when the mutex is free
begin(tx) == [tx EXCEPT !.mutex = mutexLock(@)]

\* TransactionManager.startTransaction()
startTransaction(p) ==
    LET id == p.workerIdCounter + 1
    IN  [p EXCEPT !.workerIdCounter = id,
                  !.workers = Append(@, begin(NewTransaction(id))),
                  !.workerPoolMap = MapSet(@, id, Len(p.workers) + 1)]

\* Transaction.addOperation(operation)
addOperation(tx, operation) ==
    IF tx.isCommitted THEN tx
    ELSE [tx EXCEPT !.operations = Append(@, operation)]

\* Transaction.rollback()
rollback(tx) ==
    IF tx.isCommitted
    THEN [tx |-> tx, error |-> "Cannot roll back after commit"]
    ELSE [tx |-> [tx EXCEPT !.operations = <<>>], error |-> NoError]

NewTxCall(kind, id) ==
    [kind |-> kind, id |-> id, status |-> "pending", error |-> NoError,
     ran |-> FALSE, opFailed |-> FALSE, next |-> 0]

settleTxCall(p, call, error) ==
    [p EXCEPT !.futures[call].status = IF error = NoError THEN "resolved" ELSE "rejected",
              !.futures[call].error = error]

\* commit(): the finally block, after which the promise of commit() settles
\* and endTransaction goes on behind its await
commitFinally(p, call, error) ==
    LET id == p.futures[call].id
    IN  queueMicrotask([p EXCEPT !.workers[id].mutex = mutexUnlock(@),
                                 !.futures[call].next = 0],
                       [kind |-> "afterCommit", call |-> call, error |-> error])

\* commit(): the catch block, `await this.rollback(); throw error`
commitCatch(p, call, error) ==
    LET id == p.futures[call].id
        r == rollback(p.workers[id])
    IN  commitFinally([p EXCEPT !.workers[id] = r.tx], call,
                      IF r.error # NoError THEN r.error ELSE error)

\* commit(): the for loop arriving at operation i
commitLoop(p, call, i) ==
    IF i <= Len(p.workers[p.futures[call].id].operations)
    THEN [p EXCEPT !.futures[call].next = i]
    ELSE commitFinally(p, call, NoError)

\* Transaction.commit() up to its first await, called by endTransaction
commit(p, call) ==
    LET id == p.futures[call].id
    IN  IF p.workers[id].isCommitted
        THEN queueMicrotask(p, [kind |-> "afterCommit", call |-> call,
                                error |-> "Transaction already committed"])
        ELSE commitLoop([p EXCEPT !.workers[id].isCommitted = TRUE,
                                  !.futures[call].ran = TRUE], call, 1)

\* commit() after `await operation()`
commitResumed(p, call, ok) ==
    IF ok THEN commitLoop(p, call, p.futures[call].next + 1)
    ELSE commitCatch([p EXCEPT !.futures[call].opFailed = TRUE], call, OperationError)

\* TransactionManager.endTransaction(id) up to `await transaction.commit()`
endTransaction(p, call) ==
    IF p.futures[call].id \in DOMAIN p.workerPoolMap
    THEN commit(p, call)
    ELSE settleTxCall(p, call, "Transaction not found")

\* endTransaction after the await: delete, or the rejection passes through
endTransactionResumed(p, call, error) ==
    IF error = NoError
    THEN settleTxCall([p EXCEPT !.workerPoolMap = MapDelete(@, p.futures[call].id)],
                      call, NoError)
    ELSE settleTxCall(p, call, error)

\* TransactionManager.rollbackTransaction(id) up to `await transaction.rollback()`
rollbackTransaction(p, call) ==
    LET id == p.futures[call].id
    IN  IF id \in DOMAIN p.workerPoolMap
        THEN LET r == rollback(p.workers[id])
             IN  queueMicrotask([p EXCEPT !.workers[id] = r.tx],
                                [kind |-> "afterRollback", call |-> call, error |-> r.error])
        ELSE settleTxCall(p, call, "Transaction not found")

txRunMicrotask(p, m) ==
    CASE m.kind = "afterOperation" -> commitResumed(p, m.call, m.ok)
      [] m.kind = "afterCommit" -> endTransactionResumed(p, m.call, m.error)
      [] m.kind = "afterRollback" -> endTransactionResumed(p, m.call, m.error)

txRest == <<availableWorkers, maxWorkers, mutex, taskQueue, callerActive, now, instance>>

\* the registered transactions that no commit() has been called on
Open == {id \in DOMAIN workerPoolMap : ~workers[id].isCommitted}

TxBecome(p) ==
    /\ workerPoolMap' = p.workerPoolMap
    /\ workerIdCounter' = p.workerIdCounter
    /\ workers' = p.workers
    /\ futures' = p.futures
    /\ microtasks' = p.microtasks
    /\ hist' = p.hist
    /\ UNCHANGED txRest

TxStart ==
    /\ workerIdCounter < MaxTx
    /\ TxBecome(startTransaction([Pool EXCEPT !.hist.event =
                    [kind |-> "start", id |-> workerIdCounter + 1, open |-> Open]]))

TxAddOperation(id) ==
    /\ id \in 1..Len(workers)
    /\ Len(workers[id].operations) < MaxOps
    /\ TxBecome([Pool EXCEPT !.workers[id] = addOperation(@, "op"),
                             !.hist.event = [kind |-> "add", id |-> id]])

TxEnd(id) ==
    /\ Len(futures) < MaxTxCalls
    /\ LET call == Len(futures) + 1
       IN  TxBecome(endTransaction([Pool EXCEPT !.futures = Append(@, NewTxCall("end", id)),
                                                !.hist.event = [kind |-> "end", call |-> call]],
                                   call))

TxRollback(id) ==
    /\ Len(futures) < MaxTxCalls
    /\ LET call == Len(futures) + 1
       IN  TxBecome(rollbackTransaction(
                        [Pool EXCEPT !.futures = Append(@, NewTxCall("rollback", id)),
                                     !.hist.event = [kind |-> "rollback", call |-> call]],
                        call))

\* the promise returned by the operation a commit() awaits fulfils or rejects
TxOperationSettles(call, ok) ==
    /\ futures[call].next > 0
    /\ \A i \in 1..Len(microtasks) : microtasks[i].call # call
    /\ TxBecome(queueMicrotask([Pool EXCEPT !.hist.event = [kind |-> "settles", call |-> call]],
                               [kind |-> "afterOperation", call |-> call, ok |-> ok]))

TxRunMicrotask ==
    /\ microtasks # <<>>
    /\ TxBecome(txRunMicrotask([Pool EXCEPT !.microtasks = Tail(@),
                                            !.hist.event = [kind |-> "microtask",
                                                            call |-> Head(microtasks).call]],
                               Head(microtasks)))

InitTx ==
    /\ workerPoolMap = <<>>
    /\ workerIdCounter = 0
    /\ workers = <<>>
    /\ futures = <<>>
    /\ microtasks = <<>>
    /\ hist = [event |-> NoEvent]
    /\ availableWorkers = <<>> /\ maxWorkers = 1 /\ mutex = NewMutex
    /\ taskQueue = EmptyQueue /\ callerActive = FALSE /\ now = 0
    /\ instance = NoInstance

NextTx ==
    \/ TxStart
    \/ \E id \in TxIds : TxAddOperation(id)
    \/ \E id \in TxIds : TxEnd(id)
    \/ \E id \in TxIds : TxRollback(id)
    \/ \E call \in 1..Len(futures), ok \in BOOLEAN : TxOperationSettles(call, ok)
    \/ TxRunMicrotask

SpecTx == InitTx /\ [][NextTx]_vars

\* C22: transactions are serial: a startTransaction made while an earlier
\* transaction is registered and not committed does not complete, so no
\* startTransaction completes while such a transaction exists.
C22_TransactionsSerial ==
    hist.event.kind = "start" => hist.event.open = {}

\* C23: when an operation fails during commit, the operation list is
\* cleared and the caller receives the error of the failing operation.
C23_FailedCommitRollsBack ==
    \A call \in 1..Len(futures) :
        (futures[call].kind = "end" /\ futures[call].opFailed
         /\ futures[call].status # "pending")
            => /\ futures[call].status = "rejected"
               /\ futures[call].error = OperationError
               /\ workers[futures[call].id].operations = <<>>

\* C24: after the manager's commit of a registered transaction has ended,
\* with all operations succeeded or one failed, the transaction's mutex is
\* free and the transaction is not in the registry.
C24_CommitReleasesAndDeregisters ==
    \A call \in 1..Len(futures) :
        (futures[call].kind = "end" /\ futures[call].ran
         /\ futures[call].status # "pending")
            => /\ ~workers[futures[call].id].mutex.locked
               /\ futures[call].id \notin DOMAIN workerPoolMap


(* ---------------------------------------------------------------------- *)
(* Octopus, the command facade.  `instance` is the static Octopus.instance *)
(* (object numbers the Octopus objects constructed, maxWorkers is          *)
(* this.maxWorkers); the pool variables hold this.workerPool.  `futures`   *)
(* holds the calls of the command methods, each with the promise           *)
(* runWorker returned for it, which the pool settles later; `microtasks`   *)
(* the continuations of `await this.workerPool.runWorker(...)`.            *)
(* hist.emitted lists the 'operation' events emitted, hist.returned the    *)
(* objects getInstance has returned, hist.arg the argument the instance    *)
(* was constructed with.                                                   *)
(* ---------------------------------------------------------------------- *)
MaxArg == 2            \* largest maxWorkers argument a caller passes
MaxFacadeCalls == 2    \* command method calls made

defaultNumWorkers == 8

\* the maxWorkers argument of getInstance: omitted, or a number
InstanceArgs == {Undefined} \cup {Num(n) : n \in -1..MaxArg}

WorkerErrors == {"Worker Error", "Worker Crashed"}

\* new Octopus(maxWorkers)
NewOctopus(object, mw) ==
    [instance |-> [object |-> object,
                   maxWorkers |-> IF mw > 0 THEN mw ELSE defaultNumWorkers],
     workerPool |-> initializeWorkerPool(EmptyPool(mw))]

getInstance_alwaysNew(inst, p, arg) ==
    LET mw == IF arg = Undefined THEN defaultNumWorkers ELSE arg.n
    IN  NewOctopus(inst.object + 1, mw)

\* Octopus.getInstance(maxWorkers = Octopus.defaultNumWorkers)
getInstance(inst, p, arg) ==
    LET mw == IF arg = Undefined THEN defaultNumWorkers ELSE arg.n
    IN  IF inst = NoInstance
        THEN NewOctopus(inst.object + 1, mw)
        ELSE [instance |-> inst, workerPool |-> p]

\* Octopus.getWorkerCount()
getWorkerCount(inst) == inst.maxWorkers

NewCommand(data) ==
    [data |-> data, dispatches |-> 1, dispatch |-> "pending", result |-> Undefined,
     dispatchError |-> NoError, status |-> "pending", value |-> Undefined, error |-> NoError]

command_emitsAlways(p, call) ==
    LET c == p.futures[call]
        q == [p EXCEPT !.hist.emitted = Append(@, [call |-> call, kind |-> c.data.type,
                                                   key |-> c.data.key, value |-> c.data.value])]
    IN  IF c.dispatch = "resolved"
        THEN [q EXCEPT !.futures[call].status = "resolved", !.futures[call].value = c.result]
        ELSE [q EXCEPT !.futures[call].status = "rejected",
                       !.futures[call].error = c.dispatchError]

\* a command method (set, get, del, ...) after
\* `await this.workerPool.runWorker(...)`: emit and return, or the
\* rejection leaves the method
command(p, call) ==
    LET c == p.futures[call]
    IN  IF c.dispatch = "resolved"
        THEN [p EXCEPT !.hist.emitted = Append(@, [call |-> call, kind |-> c.data.type,
                                                   key |-> c.data.key, value |-> c.data.value]),
                       !.futures[call].status = "resolved",
                       !.futures[call].value = c.result]
        ELSE [p EXCEPT !.futures[call].status = "rejected",
                       !.futures[call].error = c.dispatchError]

OctopusGetInstance(arg) ==
    /\ LET r == getInstance(instance, Pool, arg)
           p == [r.workerPool EXCEPT
                    !.hist = [emitted |-> hist.emitted,
                              returned |-> hist.returned \cup {r.instance.object},
                              arg |-> IF instance = NoInstance THEN arg ELSE hist.arg,
                              event |-> [kind |-> "getInstance", arg |-> arg,
                                         returned |-> r.instance.object,
                                         before |-> [instance |-> instance,
                                                     workerPoolMap |-> workerPoolMap,
                                                     workers |-> workers,
                                                     maxWorkers |-> maxWorkers]]],
                    !.futures = futures,
                    !.microtasks = microtasks]
       IN  /\ instance' = r.instance
           /\ Become(p)
    /\ UNCHANGED now

\* a caller calling set / get / del on the instance: one runWorker call
OctopusCommand(data) ==
    /\ instance # NoInstance
    /\ Len(futures) < MaxFacadeCalls
    /\ Become([Pool EXCEPT !.futures = Append(@, NewCommand(data))])
    /\ UNCHANGED <<now, instance>>

\* the promise runWorker returned fulfils with a result or rejects
OctopusDispatchSettles(call, result, error) ==
    /\ futures[call].dispatch = "pending"
    /\ Become(queueMicrotask(
           [Pool EXCEPT !.futures[call].dispatch = IF error = NoError THEN "resolved"
                                                   ELSE "rejected",
                        !.futures[call].result = IF error = NoError THEN result ELSE Undefined,
                        !.futures[call].dispatchError = error],
           [kind |-> "afterRunWorker", call |-> call]))
    /\ UNCHANGED <<now, instance>>

OctopusRunMicrotask ==
    /\ microtasks # <<>>
    /\ Become(command([Pool EXCEPT !.microtasks = Tail(@)], Head(microtasks).call))
    /\ UNCHANGED <<now, instance>>

InitOctopus ==
    /\ instance = NoInstance
    /\ workerPoolMap = <<>> /\ availableWorkers = <<>> /\ workerIdCounter = 0
    /\ maxWorkers = 0 /\ workers = <<>> /\ mutex = NewMutex /\ taskQueue = EmptyQueue
    /\ futures = <<>>
    /\ microtasks = <<>>
    /\ hist = [emitted |-> <<>>, returned |-> {}, arg |-> Undefined, event |-> NoEvent]
    /\ callerActive = FALSE /\ now = 0

NextOctopus ==
    \/ \E arg \in InstanceArgs : OctopusGetInstance(arg)
    \/ \E data \in SubmitCommands : OctopusCommand(data)
    \/ \E call \in 1..Len(futures) : OctopusDispatchSettles(call, Str("OK"), NoError)
    \/ \E call \in 1..Len(futures), error \in WorkerErrors :
          OctopusDispatchSettles(call, Undefined, error)
    \/ OctopusRunMicrotask

SpecOctopus == InitOctopus /\ [][NextOctopus]_vars

EmittedFor(call) == {i \in 1..Len(hist.emitted) : hist.emitted[i].call = call}

C26_WorkerCountIsConfigured ==
    instance # NoInstance =>
        LET configured == IF hist.arg = Undefined \/ hist.arg.n <= 0
                          THEN defaultNumWorkers ELSE hist.arg.n
        IN  /\ getWorkerCount(instance) = configured
            /\ getWorkerCount(instance) = Len(workers)

\* C27: a command method issues one dispatch and emits one 'operation'
\* event, only after the dispatch promise has resolved; when the dispatch
\* promise rejects, the method rejects with the same error and emits no
\* event.
C27_EmitAfterSuccessOnly ==
    \A call \in 1..Len(futures) :
        LET c == futures[call]
        IN  /\ c.dispatches = 1
            /\ Cardinality(EmittedFor(call)) <= 1
            /\ EmittedFor(call) # {} => c.dispatch = "resolved"
            /\ (c.status # "pending" /\ c.dispatch = "resolved") =>
                  /\ c.status = "resolved"
                  /\ c.value = c.result
                  /\ Cardinality(EmittedFor(call)) = 1
            /\ (c.status # "pending" /\ c.dispatch = "rejected") =>
                  /\ c.status = "rejected"
                  /\ c.error = c.dispatchError
                  /\ EmittedFor(call) = {}

C27_Witness ==
    \E i, j \in 1..Len(futures) :
        /\ futures[i].status = "rejected"
        /\ futures[i].error = "Worker Error"
        /\ futures[j].status = "resolved"
        /\ EmittedFor(j) # {}


(* ---------------------------------------------------------------------- *)
(* worker.ts with its TTL commands: one execution context.  workers[1]     *)
(* holds its `store` and `ttlStore` (the Timeout set for a key, if any);   *)
(* `now` is the clock in milliseconds.  A Timeout runs its callback at or  *)
(* after the time it was set for.  hist.setAfter[k] and hist.delAfter[k]   *)
(* tell whether a set / a del of k has been executed since the last        *)
(* expire of k that took effect.                                           *)
(* ---------------------------------------------------------------------- *)
MaxClock == 3          \* seconds the clock runs for
MaxSeconds == 2        \* largest TTL a caller passes to expire

Seconds == 1..MaxSeconds

ExpiryCommands ==
    WorkerDataType
    \cup {[type |-> t, key |-> k, value |-> Undefined] : t \in {"exists", "ttl"}, k \in Keys}
    \cup {[type |-> "expire", key |-> k, value |-> Undefined, seconds |-> sec] :
             k \in Keys, sec \in Seconds}

NoTimeout == [set |-> FALSE, idleTimeout |-> 0, fireAt |-> 0]

\* setTimeout(callback, ms) called at time t
setTimeout(t, ms) == [set |-> TRUE, idleTimeout |-> ms, fireAt |-> t + ms]

\* Math.ceil(a / b) for a >= 0, b > 0
ceilDiv(a, b) == (a + b - 1) \div b

NewContext == [store |-> EmptyStore, ttlStore |-> [k \in Keys |-> NoTimeout]]

\* parentPort.on('message') of a context with TTLs, at time t
workerCommand(w, data, t) ==
    CASE data.type = "exists" ->
            [w |-> w, result |-> IF w.store[data.key] # Absent THEN Num(1) ELSE Num(0)]
      [] data.type = "expire" ->
            IF w.store[data.key] # Absent
            THEN [w |-> [w EXCEPT !.ttlStore[data.key] = setTimeout(t, data.seconds * 1000)],
                  result |-> Num(1)]
            ELSE [w |-> w, result |-> Num(0)]
      [] data.type = "ttl" ->
            [w |-> w,
             result |-> IF w.ttlStore[data.key].set
                        THEN Num(ceilDiv(w.ttlStore[data.key].idleTimeout, 1000))
                        ELSE Num(-1)]
      [] OTHER ->
            LET r == workerOnMessage(w.store, data)
            IN  [w |-> [w EXCEPT !.store = r.store], result |-> r.result]

\* the callback given to setTimeout by expire
timeoutCallback_keepsStore(w, key) ==
    [w EXCEPT !.ttlStore[key] = NoTimeout]

timeoutCallback(w, key) ==
    [w EXCEPT !.store[key] = Absent, !.ttlStore[key] = NoTimeout]

contextRest == <<workerPoolMap, availableWorkers, workerIdCounter, maxWorkers, microtasks,
                 mutex, taskQueue, futures, callerActive, instance>>

ContextCommand(data) ==
    /\ data.type = "expire" => now + data.seconds * 1000 <= MaxClock * 1000
    /\ LET r == workerCommand(workers[1], data, now)
           k == data.key
           took == data.type = "expire" /\ r.result = Num(1)
       IN  /\ workers' = <<r.w>>
           /\ hist' = [setAfter |-> [hist.setAfter EXCEPT ![k] =
                                        IF took THEN FALSE
                                        ELSE IF data.type = "set" THEN TRUE ELSE @],
                       delAfter |-> [hist.delAfter EXCEPT ![k] =
                                        IF took THEN FALSE
                                        ELSE IF data.type = "del" THEN TRUE ELSE @],
                       event |-> [kind |-> "command", data |-> data, result |-> r.result,
                                  at |-> now, before |-> workers[1],
                                  setAfter |-> hist.setAfter[k],
                                  delAfter |-> hist.delAfter[k]]]
    /\ UNCHANGED <<now, contextRest>>

\* a Timeout that is due runs its callback
ContextTimeout(key) ==
    /\ workers[1].ttlStore[key].set
    /\ workers[1].ttlStore[key].fireAt <= now
    /\ workers' = <<timeoutCallback(workers[1], key)>>
    /\ hist' = [setAfter |-> [hist.setAfter EXCEPT ![key] = FALSE],
                delAfter |-> [hist.delAfter EXCEPT ![key] = FALSE],
                event |-> [kind |-> "timeout", key |-> key, at |-> now,
                           before |-> workers[1],
                           setAfter |-> hist.setAfter[key],
                           delAfter |-> hist.delAfter[key]]]
    /\ UNCHANGED <<now, contextRest>>

ContextTick ==
    /\ now < MaxClock * 1000
    /\ now' = now + 1000
    /\ hist' = [hist EXCEPT !.event = [kind |-> "tick"]]
    /\ UNCHANGED <<workers, contextRest>>

InitContext ==
    /\ workers = <<NewContext>>
    /\ now = 0
    /\ hist = [setAfter |-> [k \in Keys |-> FALSE], delAfter |-> [k \in Keys |-> FALSE],
               event |-> NoEvent]
    /\ workerPoolMap = <<>> /\ availableWorkers = <<>> /\ workerIdCounter = 0
    /\ maxWorkers = 1 /\ microtasks = <<>> /\ mutex = NewMutex /\ taskQueue = EmptyQueue
    /\ futures = <<>> /\ callerActive = FALSE
    /\ instance = NoInstance

NextContext ==
    \/ \E data \in ExpiryCommands : ContextCommand(data)
    \/ \E key \in Keys : ContextTimeout(key)
    \/ ContextTick

SpecContext == InitContext /\ [][NextContext]_vars

\* C28: set k v cancels a pending expiration of k: after expire(k, s) and
\* then set(k, v), no Timeout of the earlier expire removes k, and ttl(k)
\* answers -1.
C28_SetCancelsExpiration ==
    /\ (hist.event.kind = "timeout" /\ hist.event.setAfter) =>
          hist.event.before.store[hist.event.key] = Absent
    /\ (hist.event.kind = "command" /\ hist.event.data.type = "ttl" /\ hist.event.setAfter) =>
          hist.event.result = Num(-1)

\* C29: del k removes k from the store and from the TTL map: after
\* expire(k, s), del(k) and a new set(k, v2), the Timeout of the earlier
\* expire never removes the new value.
C29_DelCancelsExpiration ==
    (hist.event.kind = "timeout" /\ hist.event.delAfter) =>
        hist.event.before.store[hist.event.key] = Absent

\* C30: a get or exists of a key executed at or after the deadline recorded
\* for the key answers null / 0 and leaves the key out of the store and of
\* the TTL map, whether or not the Timeout has run.
C30_LazyExpiryOnRead ==
    LET e == hist.event
    IN  (/\ e.kind = "command"
         /\ e.data.type \in {"get", "exists"}
         /\ e.before.ttlStore[e.data.key].set
         /\ e.before.ttlStore[e.data.key].fireAt <= e.at)
            => /\ e.result \in {Null, Num(0)}
               /\ workers[1].store[e.data.key] = Absent
               /\ ~workers[1].ttlStore[e.data.key].set

\* the clock advances and a Timeout that is due gets its callback run
SpecContextFair ==
    /\ InitContext
    /\ [][NextContext]_vars
    /\ WF_vars(ContextTick)
    /\ \A key \in Keys : WF_vars(ContextTimeout(key))

Expiring(k) == workers[1].ttlStore[k].set

Expired(k) ==
    /\ hist.event.kind = "timeout"
    /\ hist.event.key = k
    /\ workers[1].store[k] = Absent
    /\ ~workers[1].ttlStore[k].set

MaxCounter == 2        \* counters stay within -MaxCounter..MaxCounter
MaxList == 2           \* elements a list holds

List(items) == [tag |-> "list", s |-> "", n |-> 0, items |-> items]
SetOf(members) == [tag |-> "set", s |-> "", n |-> 0, members |-> members]

TypedCommands ==
    {[type |-> "set", key |-> k, value |-> Str(v)] : k \in Keys, v \in {"10", "a"}}
    \cup {[type |-> t, key |-> k, value |-> Undefined] :
             t \in {"get", "del", "incr", "decr"}, k \in Keys}
    \cup {[type |-> t, key |-> k, subType |-> st, value |-> Str("a")] :
             t \in {"listOp"}, k \in Keys, st \in {"LPUSH", "RPUSH"}}
    \cup {[type |-> t, key |-> k, subType |-> st, value |-> Undefined] :
             t \in {"listOp"}, k \in Keys, st \in {"LPOP", "RPOP"}}
    \cup {[type |-> t, key |-> k, subType |-> st, value |-> Str(v)] :
             t \in {"setOp"}, k \in Keys, st \in {"SADD", "SREM"}, v \in Vals}

NotAnInteger == Str("ERR value is not an integer")

\* case 'incr' (by = 1) and case 'decr' (by = -1)
incrBy(w, key, by) ==
    LET value == w.store[key]
    IN  IF value # Absent
        THEN IF value.tag = "num"
             THEN [w |-> [w EXCEPT !.store[key] = Num(value.n + by)],
                   result |-> Num(value.n + by), threw |-> FALSE]
             ELSE [w |-> w, result |-> NotAnInteger, threw |-> FALSE]
        ELSE [w |-> [w EXCEPT !.store[key] = Num(by)], result |-> Num(by), threw |-> FALSE]

\* case 'listOp'
listOp(w, data) ==
    LET had == w.store[data.key]
        value == IF had = Absent THEN List(<<>>) ELSE had
    IN  CASE data.subType \in {"LPUSH", "RPUSH"} ->
                IF value.tag # "list"
                THEN [w |-> w, result |-> Undefined, threw |-> TRUE]
                ELSE LET items == IF data.subType = "LPUSH"
                                  THEN <<data.value>> \o value.items
                                  ELSE Append(value.items, data.value)
                     IN  [w |-> [w EXCEPT !.store[data.key] = List(items)],
                          result |-> Num(Len(items)), threw |-> FALSE]
          [] data.subType \in {"LPOP", "RPOP"} ->
                IF had # Absent /\ had.tag = "list"
                THEN IF had.items = <<>>
                     THEN [w |-> w, result |-> Undefined, threw |-> FALSE]
                     ELSE IF data.subType = "LPOP"
                          THEN [w |-> [w EXCEPT !.store[data.key] = List(Tail(had.items))],
                                result |-> Head(had.items), threw |-> FALSE]
                          ELSE [w |-> [w EXCEPT !.store[data.key] =
                                          List(SubSeq(had.items, 1, Len(had.items) - 1))],
                                result |-> had.items[Len(had.items)], threw |-> FALSE]
                ELSE [w |-> w, result |-> Null, threw |-> FALSE]

\* case 'setOp'
setOp(w, data) ==
    LET had == w.store[data.key]
        value == IF had = Absent THEN SetOf({}) ELSE had
    IN  CASE data.subType = "SADD" ->
                IF value.tag # "set"
                THEN [w |-> w, result |-> Undefined, threw |-> TRUE]
                ELSE LET members == value.members \cup {data.value}
                     IN  [w |-> [w EXCEPT !.store[data.key] = SetOf(members)],
                          result |-> Num(Cardinality(members)), threw |-> FALSE]
          [] data.subType = "SREM" ->
                IF had # Absent /\ had.tag = "set"
                THEN [w |-> [w EXCEPT !.store[data.key] = SetOf(had.members \ {data.value})],
                      result |-> IF data.value \in had.members THEN Num(1) ELSE Num(0),
                      threw |-> FALSE]
                ELSE [w |-> w, result |-> Num(0), threw |-> FALSE]

\* parentPort.on('message') with every command kind, at time t
typedCommand(w, data, t) ==
    CASE data.type = "incr" -> incrBy(w, data.key, 1)
      [] data.type = "decr" -> incrBy(w, data.key, -1)
      [] data.type = "listOp" -> listOp(w, data)
      [] data.type = "setOp" -> setOp(w, data)
      [] OTHER -> LET r == workerCommand(w, data, t)
                  IN  [w |-> r.w, result |-> r.result, threw |-> FALSE]

\* a command arrives at the running context; the result is posted unless
\* the handler threw
TypedCommand(data) ==
    /\ workers[1].status = "running"
    /\ LET v == workers[1].store[data.key]
       IN  /\ (data.type = "incr" /\ v.tag = "num") => v.n < MaxCounter
           /\ (data.type = "decr" /\ v.tag = "num") => v.n > -MaxCounter
           /\ (data.type = "listOp" /\ v.tag = "list" /\ data.subType \in {"LPUSH", "RPUSH"})
                 => Len(v.items) < MaxList
    /\ LET r == typedCommand(workers[1], data, now)
       IN  /\ workers' = <<[r.w EXCEPT !.status = IF r.threw THEN "terminated" ELSE @]>>
           /\ hist' = [served |-> hist.served \cup {data.type},
                       event |-> [kind |-> "command", data |-> data, result |-> r.result,
                                  posted |-> ~r.threw, before |-> workers[1]]]
    /\ UNCHANGED <<now, contextRest>>

InitTyped ==
    /\ workers = <<[store |-> EmptyStore, ttlStore |-> [k \in Keys |-> NoTimeout],
                    status |-> "running"]>>
    /\ now = 0
    /\ hist = [served |-> {}, event |-> NoEvent]
    /\ workerPoolMap = <<>> /\ availableWorkers = <<>> /\ workerIdCounter = 0
    /\ maxWorkers = 1 /\ microtasks = <<>> /\ mutex = NewMutex /\ taskQueue = EmptyQueue
    /\ futures = <<>> /\ callerActive = FALSE
    /\ instance = NoInstance

NextTyped == \E data \in TypedCommands : TypedCommand(data)

SpecTyped == InitTyped /\ [][NextTyped]_vars

\* the value does not have the type the command works on
Incompatible(data, v) ==
    /\ v # Absent
    /\ \/ data.type = "listOp" /\ v.tag # "list"
       \/ data.type = "setOp" /\ v.tag # "set"
       \/ data.type \in {"incr", "decr"} /\ v.tag \in {"list", "set"}

IsErrorResult(result) == result \in {NotAnInteger, Str("WRONGTYPE")}

\* C32: a command applied to a key whose value has an incompatible type
\* posts an error as its result, leaves the store as it was and leaves the
\* execution context running.
C32_WrongTypeIsAResult ==
    LET e == hist.event
    IN  (e.kind = "command" /\ Incompatible(e.data, e.before.store[e.data.key]))
            => /\ e.posted
               /\ IsErrorResult(e.result)
               /\ workers[1].store = e.before.store
               /\ workers[1].status = "running"

Digit == <<"0", "1", "2", "3", "4", "5", "6", "7", "8", "9">>

\* the decimal numeral of an integer
RECURSIVE Numeral(_)
Numeral(n) ==
    IF n < 0 THEN "-" \o Numeral(-n)
    ELSE IF n < 10 THEN Digit[n + 1]
    ELSE Numeral(n \div 10) \o Digit[(n % 10) + 1]

Integers20 == -20..20

IsNumeral(s) == \E n \in Integers20 : Numeral(n) = s

\* the integer a stored value counts as, for a counter command
CounterValue(v) ==
    IF v = Absent THEN 0
    ELSE IF v.tag = "num" THEN v.n
    ELSE CHOOSE n \in Integers20 : Numeral(n) = v.s

\* C33: incr k (decr k) stores and returns, as a string, the previous
\* integer value of the key plus (minus) one; an absent key counts as 0
\* and a decimal string written by set counts as its integer.
C33_CounterReturnsNewValueAsString ==
    LET e == hist.event
        v == e.before.store[e.data.key]
        by == IF e.data.type = "incr" THEN 1 ELSE -1
    IN  (/\ e.kind = "command"
         /\ e.data.type \in {"incr", "decr"}
         /\ (v = Absent \/ v.tag = "num" \/ (v.tag = "str" /\ IsNumeral(v.s))))
            => /\ e.result = Str(Numeral(CounterValue(v) + by))
               /\ workers[1].store[e.data.key] \in
                     {Str(Numeral(CounterValue(v) + by)), Num(CounterValue(v) + by)}


(* ---------------------------------------------------------------------- *)
(* The pool with delayed commands: callers pass a delay to runWorker and   *)
(* the clock advances.  Workers answer every command.                      *)
(* ---------------------------------------------------------------------- *)
NextDelayed ==
    \/ \E data \in SubmitCommands, delay \in Delays : Submit(data, 0, delay)
    \/ \E w \in 1..Len(workers) : WorkerMessage(w)
    \/ RunMicrotask
    \/ Tick

SpecDelayed == Init /\ [][NextDelayed]_vars

\* C34: a command dispatched with delay d > 0 is not shipped to any
\* execution context before submission time + d, whether or not a worker
\* is idle when it is submitted: no worker has received a command whose
\* ready-at time is still ahead.
C34_DelayedNotShippedEarly ==
    \A w \in 1..Len(workers) : \A i \in 1..Len(workers[w].inbox) :
        futures[workers[w].inbox[i].origin].seen.readyAt <= now


(* ---------------------------------------------------------------------- *)
(* Further properties of the AdvancedTaskQueue on its own (SpecQueue)      *)
(* ---------------------------------------------------------------------- *)
\* C35: dequeue() returns undefined only when no queued task has
\* executeAt <= now: whenever some queued task is ready it returns a task,
\* even if a task that is not ready yet and has a smaller priority number
\* is queued too.
C35_DequeueAbsentOnlyWhenNothingReady ==
    (hist.event.kind = "dequeue") =>
        (hist.event.ret = NoTask
            <=> \A a \in HeapTasks(hist.event.before.heap) : a.executeAt > now)

\* C36: a task accepted by enqueue stays in the queue until a dequeue()
\* call returns it: the periodic scan removes nothing, and the only task
\* an operation takes out of the queue is the one dequeue() returns.
C36_OnlyDequeueRemoves ==
    (hist.event.kind \in {"enqueue", "dequeue", "poll"}) =>
        LET gone == HeapTasks(hist.event.before.heap) \ HeapTasks(taskQueue.heap)
        IN  IF hist.event.kind = "dequeue" /\ hist.event.ret # NoTask
            THEN \A a \in gone : a.task = hist.event.ret
            ELSE gone = {}


(* ---------------------------------------------------------------------- *)
(* Further properties of the pool (Spec)                                   *)
(* ---------------------------------------------------------------------- *)
\* C37: the pool loses no queued task while draining: every task that
\* processQueue takes out of the task queue is shipped to a worker, for
\* every worker id (0 included) and with several processQueue calls in
\* progress; a task that no idle worker can take stays queued.
C37_DrainLosesNoTask ==
    \A f \in FutureIds :
        f \in hist.dropped
            => \/ f \in hist.shipped
               \/ \E i \in 1..Len(taskQueue.heap) : taskQueue.heap[i].task.origin = f


(* ---------------------------------------------------------------------- *)
(* Further properties of ReentrantOctopusMutex (SpecMutex)                 *)
(* ---------------------------------------------------------------------- *)
\* C38 (I6): in every reachable state of the reentrant mutex the recorded
\* owner is non-null if and only if that owner's acquisition count is
\* greater than 0, and no context other than the owner has a positive
\* count.
C38_OwnerIffCounted ==
    /\ mutex.currentOwner # NoOwner => mutex.lockCount[mutex.currentOwner] > 0
    /\ \A c \in Contexts : mutex.lockCount[c] > 0 => mutex.currentOwner = c


(* ---------------------------------------------------------------------- *)
(* The two reentrant mutex classes side by side: ReentrantOctopusMutex     *)
(* (used by AdvancedTaskQueue and WorkerPool) and OctupusReentrantMutex    *)
(* of queue/OctopusReentrantMutex.ts (used by the pool of                  *)
(* src/unnamed/part_003).  `mutex` holds one object of each class,         *)
(* `microtasks` the resolved lock() continuations as [object, by].         *)
(* ---------------------------------------------------------------------- *)
MutexClasses == {"ReentrantOctopusMutex", "OctupusReentrantMutex"}

NewOctupusMutex ==
    [currentOwner |-> NoOwner, lockedBy |-> [c \in Contexts |-> 0], queue |-> <<>>]

\* OctupusReentrantMutex.lock() up to its first suspension
octupusLock(m, currentThreadId) ==
    IF m.currentOwner = currentThreadId
    THEN [m |-> [m EXCEPT !.lockedBy[currentThreadId] = @ + 1], completed |-> TRUE]
    ELSE [m |-> [m EXCEPT !.queue = Append(@, currentThreadId)], completed |-> FALSE]

\* OctupusReentrantMutex.lock() after `await new Promise(...)`
octupusLockResumed(m, currentThreadId) ==
    [m EXCEPT !.currentOwner = currentThreadId, !.lockedBy[currentThreadId] = @ + 1]

\* OctupusReentrantMutex.unlock()
octupusUnlock(m, currentThreadId) ==
    IF m.currentOwner # currentThreadId
    THEN [m |-> m, threw |-> TRUE, resumed |-> <<>>]
    ELSE IF m.lockedBy[currentThreadId] > 1
         THEN [m |-> [m EXCEPT !.lockedBy[currentThreadId] = @ - 1],
               threw |-> FALSE, resumed |-> <<>>]
         ELSE IF Len(m.queue) > 0
              THEN [m |-> [m EXCEPT !.lockedBy[currentThreadId] = 0, !.queue = Tail(@)],
                    threw |-> FALSE, resumed |-> <<Head(m.queue)>>]
              ELSE [m |-> [m EXCEPT !.lockedBy[currentThreadId] = 0, !.currentOwner = NoOwner],
                    threw |-> FALSE, resumed |-> <<>>]

\* the acquisition counts of the object of class o
CountsOf(o) ==
    IF o = "ReentrantOctopusMutex" THEN mutex[o].lockCount ELSE mutex[o].lockedBy

\* context c is not suspended inside a lock() of either object
RunsFreely(c) ==
    /\ \A o \in MutexClasses : c \notin Range(mutex[o].queue)
    /\ \A i \in 1..Len(microtasks) : microtasks[i].by # c

\* context c calls lock() of the object of class o
ClassLock(o, c) ==
    /\ RunsFreely(c)
    /\ hist.held[o][c] < MaxDepth
    /\ LET r == IF o = "ReentrantOctopusMutex" THEN reentrantLock(mutex[o], c)
                ELSE octupusLock(mutex[o], c)
       IN  /\ mutex' = [mutex EXCEPT ![o] = r.m]
           /\ hist' = [held |-> IF r.completed THEN [hist.held EXCEPT ![o][c] = @ + 1]
                                ELSE hist.held,
                       event |-> [kind |-> "lock", object |-> o, by |-> c,
                                  completed |-> r.completed, before |-> mutex[o],
                                  counts |-> CountsOf(o)]]
    /\ UNCHANGED <<microtasks, mutexRest>>

\* the continuation of a lock() whose resolver was called runs
ClassResume ==
    /\ microtasks # <<>>
    /\ LET o == Head(microtasks).object
           c == Head(microtasks).by
       IN  /\ mutex' = [mutex EXCEPT ![o] = IF o = "ReentrantOctopusMutex"
                                            THEN reentrantLockResumed(@, c)
                                            ELSE octupusLockResumed(@, c)]
           /\ hist' = [held |-> [hist.held EXCEPT ![o][c] = @ + 1],
                       event |-> [kind |-> "resume", object |-> o, by |-> c]]
    /\ microtasks' = Tail(microtasks)
    /\ UNCHANGED mutexRest

\* context c calls unlock() of the object of class o
ClassUnlock(o, c) ==
    /\ RunsFreely(c)
    /\ LET r == IF o = "ReentrantOctopusMutex" THEN reentrantUnlock(mutex[o], c)
                ELSE octupusUnlock(mutex[o], c)
       IN  /\ mutex' = [mutex EXCEPT ![o] = r.m]
           /\ microtasks' = microtasks \o [i \in 1..Len(r.resumed) |->
                                              [object |-> o, by |-> r.resumed[i]]]
           /\ hist' = [held |-> IF ~r.threw /\ hist.held[o][c] > 0
                                THEN [hist.held EXCEPT ![o][c] = @ - 1] ELSE hist.held,
                       event |-> [kind |-> "unlock", object |-> o, by |-> c,
                                  threw |-> r.threw, resumed |-> r.resumed,
                                  before |-> mutex[o], counts |-> CountsOf(o)]]
    /\ UNCHANGED mutexRest

InitMutexes ==
    /\ mutex = [ReentrantOctopusMutex |-> NewReentrantMutex,
                OctupusReentrantMutex |-> NewOctupusMutex]
    /\ microtasks = <<>>
    /\ hist = [held |-> [o \in MutexClasses |-> [c \in Contexts |-> 0]], event |-> NoEvent]
    /\ workerPoolMap = <<>> /\ availableWorkers = <<>> /\ workerIdCounter = 0
    /\ maxWorkers = 1 /\ workers = <<>> /\ taskQueue = EmptyQueue /\ futures = <<>>
    /\ callerActive = FALSE /\ now = 0
    /\ instance = NoInstance

NextMutexes ==
    \/ \E o \in MutexClasses, c \in Contexts : ClassLock(o, c)
    \/ \E o \in MutexClasses, c \in Contexts : ClassUnlock(o, c)
    \/ ClassResume

SpecMutexes == InitMutexes /\ [][NextMutexes]_vars

\* C39: lock() on a reentrant mutex that is free (no owner, empty wait
\* queue) completes and makes the caller the owner with count 1, without
\* any unlock() call; and after the final unlock() with an empty wait
\* queue the mutex is free again, so that a later lock() completes too.
C39_FreeMutexIsAcquired ==
    LET e == hist.event
    IN  /\ (/\ e.kind = "lock"
            /\ e.before.currentOwner = NoOwner
            /\ e.before.queue = <<>>)
              => /\ e.completed
                 /\ mutex[e.object].currentOwner = e.by
                 /\ CountsOf(e.object)[e.by] = 1
        /\ (/\ e.kind = "unlock" /\ ~e.threw
            /\ e.counts[e.by] <= 1
            /\ e.before.queue = <<>>)
              => /\ mutex[e.object].currentOwner = NoOwner
                 /\ mutex[e.object].queue = <<>>


(* ---------------------------------------------------------------------- *)
(* Duplicate commands in the pool (Spec)                                   *)
(* ---------------------------------------------------------------------- *)
\* the runWorker calls whose task the task queue holds
Held == {taskQueue.heap[i].task.origin : i \in 1..Len(taskQueue.heap)}

\* C40: when two callers dispatch structurally identical commands while no
\* worker is available, each caller's command is executed and each
\* caller's Future is settled: the second submission is not discarded.
\* So, once the calls have run and before any worker has answered, the
\* task queue holds a task for each of two such calls.
C40_DuplicateNotDiscarded ==
    (hist.burst /\ Settled) =>
        \A f, g \in FutureIds :
            (/\ f # g
             /\ futures[f].data = futures[g].data
             /\ futures[f].route = "queued" /\ futures[g].route = "queued")
                => {f, g} \subseteq Held

====
